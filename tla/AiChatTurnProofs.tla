-------------------------- MODULE AiChatTurnProofs --------------------------
(***************************************************************************)
(* Type correctness of AiChatTurn, that a busy panel can be stopped, that  *)
(* a settled turn stays settled, and that shown text is kept, for any      *)
(* chats, turns, deltas and faults.                                        *)
(***************************************************************************)
EXTENDS AiChatTurn, SequenceTheorems, FiniteSetTheorems, TLAPS

-----------------------------------------------------------------------------
(***************************************************************************)
(* Counting the deltas of a sequence of events.                            *)
(***************************************************************************)
Positions(events) == {i \in DOMAIN events : events[i] = "delta"}

LEMMA DeltasType ==
  ASSUME NEW w \in Seq(Event)
  PROVE  /\ IsFiniteSet(Positions(w))
         /\ Deltas(w) = Cardinality(Positions(w))
         /\ Deltas(w) \in Nat
<1>1. Len(w) \in Nat /\ DOMAIN w = 1..Len(w)
  OBVIOUS
<1>2. IsFiniteSet(1..Len(w)) /\ Positions(w) \in SUBSET (1..Len(w))
  BY <1>1, FS_Interval DEF Positions
<1>3. IsFiniteSet(Positions(w))
  BY <1>2, FS_Subset
<1> QED
  BY <1>3, FS_CardinalityType DEF Deltas, Positions

LEMMA NoDeltas ==
  ASSUME NEW w \in Seq(Event), \A i \in 1..Len(w) : w[i] # "delta"
  PROVE  Deltas(w) = 0
<1>1. Positions(w) = {}
  BY DEF Positions
<1> QED
  BY <1>1, DeltasType, FS_EmptySet

LEMMA NoEvents == << >> \in Seq(Event) /\ Deltas(<< >>) = 0
<1>1. << >> \in Seq(Event) /\ Len(<< >>) = 0
  OBVIOUS
<1>2. 1..Len(<< >>) = {}
  BY <1>1
<1> QED
  BY <1>1, <1>2, NoDeltas

LEMMA DeltasOfOne ==
  ASSUME NEW e \in Event
  PROVE  /\ <<e>> \in Seq(Event)
         /\ Deltas(<<e>>) = IF e = "delta" THEN 1 ELSE 0
<1>1. <<e>> \in Seq(Event) /\ DOMAIN <<e>> = {1} /\ <<e>>[1] = e
  OBVIOUS
<1>2. Positions(<<e>>) = IF e = "delta" THEN {1} ELSE {}
  BY <1>1 DEF Positions
<1>3. Cardinality({1}) = 1 /\ Cardinality({}) = 0
  BY FS_Singleton, FS_EmptySet
<1> QED
  BY <1>1, <1>2, <1>3, DeltasType

LEMMA DeltasOfConcatenation ==
  ASSUME NEW w \in Seq(Event), NEW u \in Seq(Event)
  PROVE  Deltas(w \o u) = Deltas(w) + Deltas(u)
<1> DEFINE Shifted == {Len(w) + i : i \in Positions(u)}
           shift == [i \in Positions(u) |-> Len(w) + i]
<1>1. Len(w) \in Nat /\ Len(u) \in Nat
  OBVIOUS
<1>2. Positions(w) \subseteq 1..Len(w) /\ Positions(u) \subseteq 1..Len(u)
  BY DEF Positions
<1>3. /\ w \o u \in Seq(Event)
      /\ Len(w \o u) = Len(w) + Len(u)
      /\ \A i \in 1 .. Len(w) + Len(u) :
           (w \o u)[i] = IF i <= Len(w) THEN w[i] ELSE u[i - Len(w)]
  BY ConcatProperties
<1>4. Positions(w \o u) = Positions(w) \cup Shifted
  <2>1. ASSUME NEW i \in Positions(w \o u) PROVE i \in Positions(w) \cup Shifted
    <3>1. i \in 1 .. Len(w) + Len(u) /\ (w \o u)[i] = "delta"
      BY <1>3, <2>1 DEF Positions
    <3>2. CASE i <= Len(w)
      BY <1>1, <1>3, <3>1, <3>2 DEF Positions
    <3>3. CASE i > Len(w)
      <4>1. i - Len(w) \in 1..Len(u) /\ u[i - Len(w)] = "delta"
        BY <1>1, <1>3, <3>1, <3>3
      <4>2. i - Len(w) \in Positions(u) /\ i = Len(w) + (i - Len(w))
        BY <1>1, <3>1, <4>1 DEF Positions
      <4> QED
        BY <4>2
    <3> QED
      BY <1>1, <3>1, <3>2, <3>3
  <2>2. ASSUME NEW i \in Positions(w) PROVE i \in Positions(w \o u)
    BY <1>1, <1>2, <1>3, <2>2 DEF Positions
  <2>3. ASSUME NEW i \in Positions(u) PROVE Len(w) + i \in Positions(w \o u)
    <3>1. i \in 1..Len(u) /\ u[i] = "delta"
      BY <2>3 DEF Positions
    <3>2. /\ Len(w) + i \in 1 .. Len(w) + Len(u)
          /\ ~(Len(w) + i <= Len(w))
          /\ Len(w) + i - Len(w) = i
      BY <1>1, <3>1
    <3> QED
      BY <1>3, <3>1, <3>2 DEF Positions
  <2> QED
    BY <2>1, <2>2, <2>3
<1>5. IsFiniteSet(Shifted) /\ Cardinality(Shifted) = Deltas(u)
  <2>1. shift \in Bijection(Positions(u), Shifted)
    BY <1>1, <1>2 DEF Bijection, Injection, Surjection, IsInjective
  <2>2. ExistsBijection(Positions(u), Shifted)
    BY <2>1 DEF ExistsBijection
  <2> HIDE DEF Shifted
  <2> QED
    BY <2>2, DeltasType, FS_Bijection
<1>6. Positions(w) \cap Shifted = {}
  BY <1>1, <1>2
<1> HIDE DEF Shifted
<1>7. Cardinality(Positions(w) \cup Shifted) = Deltas(w) + Deltas(u) - 0
  BY <1>5, <1>6, DeltasType, FS_Union, FS_EmptySet
<1>8. Deltas(w \o u) = Cardinality(Positions(w \o u)) /\ Deltas(w) \in Nat /\ Deltas(u) \in Nat
  BY <1>3, DeltasType
<1> QED
  BY <1>4, <1>7, <1>8

LEMMA Chunk ==
  ASSUME NEW w \in Seq(Event), NEW n \in 0..Len(w)
  PROVE  /\ SubSeq(w, 1, n) \in Seq(Event)
         /\ Len(SubSeq(w, 1, n)) = n
         /\ \A i \in 1..n : SubSeq(w, 1, n)[i] = w[i]
         /\ SubSeq(w, n + 1, Len(w)) \in Seq(Event)
         /\ Len(SubSeq(w, n + 1, Len(w))) = Len(w) - n
         /\ \A i \in 1 .. Len(w) - n : SubSeq(w, n + 1, Len(w))[i] = w[n + i]
         /\ Deltas(w) = Deltas(SubSeq(w, 1, n)) + Deltas(SubSeq(w, n + 1, Len(w)))
<1>1. Len(w) \in Nat /\ \A i \in 1..Len(w) : w[i] \in Event
  OBVIOUS
<1>2. /\ SubSeq(w, 1, n) \in Seq(Event)
      /\ Len(SubSeq(w, 1, n)) = n
      /\ \A i \in 1..n : SubSeq(w, 1, n)[i] = w[i]
  BY <1>1, SubSeqProperties
<1>3. /\ SubSeq(w, n + 1, Len(w)) \in Seq(Event)
      /\ Len(SubSeq(w, n + 1, Len(w))) = Len(w) - n
      /\ \A i \in 1 .. Len(w) - n : SubSeq(w, n + 1, Len(w))[i] = w[n + i]
  BY <1>1, SubSeqProperties
<1>4. SubSeq(w, 1, n) \o SubSeq(w, n + 1, Len(w)) = SubSeq(w, 1, Len(w))
  <2>1. 1 \in 1 .. Len(w) + 1 /\ n \in 1 - 1 .. Len(w) /\ Len(w) \in n .. Len(w)
    BY <1>1
  <2> QED
    BY <2>1, ConcatAdjacentSubSeq
<1>5. SubSeq(w, 1, Len(w)) = w
  BY SubSeqFull
<1>6. Deltas(SubSeq(w, 1, n) \o SubSeq(w, n + 1, Len(w)))
        = Deltas(SubSeq(w, 1, n)) + Deltas(SubSeq(w, n + 1, Len(w)))
  BY <1>2, <1>3, DeltasOfConcatenation
<1>7. Deltas(w) = Deltas(SubSeq(w, 1, n)) + Deltas(SubSeq(w, n + 1, Len(w)))
  BY <1>4, <1>5, <1>6
<1> QED
  BY <1>2, <1>3, <1>7

LEMMA NextDelta ==
  ASSUME NEW w \in Seq(Event), NEW n \in 1..Len(w)
  PROVE  Deltas(SubSeq(w, 1, n)) =
           Deltas(SubSeq(w, 1, n - 1)) + (IF w[n] = "delta" THEN 1 ELSE 0)
<1>1. SubSeq(w, 1, n) = SubSeq(w, 1, n - 1) \o <<w[n]>>
  BY SubSeqRecursiveSecond
<1>2. SubSeq(w, 1, n - 1) \in Seq(Event) /\ w[n] \in Event
  BY Chunk
<1> QED
  BY <1>1, <1>2, DeltasOfConcatenation, DeltasOfOne

-----------------------------------------------------------------------------
(***************************************************************************)
(* The reducer on a batch.                                                 *)
(***************************************************************************)
IsRun(g, s, t, batch, m) ==
  g = [n \in 0..m |->
         IF n = 0 THEN s ELSE ApplyStreamingSseEvent(g[n - 1], t, batch[n])]

LEMMA RunExists ==
  ASSUME NEW s, NEW t, NEW batch, NEW m \in Nat
  PROVE  \E g : IsRun(g, s, t, batch, m)
<1> DEFINE T == {k \in Nat : ~ \E g : IsRun(g, s, t, batch, k)}
<1> SUFFICES ASSUME T # {} PROVE FALSE
  OBVIOUS
<1>1. PICK least \in T : \A k \in T : << k, least >> \notin OpToRel(<, Nat)
  BY WFMin, NatLessThanWellFounded, Zenon
<1>2. least \in Nat /\ \A k \in T : ~(k < least)
  BY <1>1, Zenon DEF OpToRel
<1>3. CASE least = 0
  <2>1. IsRun([n \in 0..0 |-> s], s, t, batch, 0)
    BY DEF IsRun
  <2> QED
    BY <1>1, <1>3, <2>1
<1>4. CASE least # 0
  <2>1. least - 1 \in Nat /\ least - 1 \notin T
    BY <1>2, <1>4
  <2>2. PICK g : IsRun(g, s, t, batch, least - 1)
    BY <2>1
  <2> DEFINE h == [n \in 0..least |->
                     IF n = least THEN ApplyStreamingSseEvent(g[n - 1], t, batch[n])
                     ELSE g[n]]
  <2>3. \A n \in 0 .. least - 1 :
          g[n] = IF n = 0 THEN s ELSE ApplyStreamingSseEvent(g[n - 1], t, batch[n])
    BY <2>2 DEF IsRun
  <2>4. ASSUME NEW n \in 0..least
        PROVE  h[n] = IF n = 0 THEN s ELSE ApplyStreamingSseEvent(h[n - 1], t, batch[n])
    <3>1. n # 0 => n - 1 \in 0..least /\ n - 1 # least
      BY <1>2
    <3>2. n # 0 => h[n - 1] = g[n - 1]
      BY <3>1
    <3> QED
      BY <1>2, <1>4, <2>3, <3>2
  <2>5. h = [n \in 0..least |->
               IF n = 0 THEN s ELSE ApplyStreamingSseEvent(h[n - 1], t, batch[n])]
    BY <2>4
  <2>6. IsRun(h, s, t, batch, least)
    BY <2>5 DEF IsRun
  <2> QED
    BY <1>1, <2>6
<1> QED
  BY <1>3, <1>4

LEMMA SseBatchUnfolds ==
  ASSUME NEW s, NEW t, NEW batch \in Seq(Event)
  PROVE  /\ SseBatchStates(s, t, batch)[0] = s
         /\ \A n \in 1..Len(batch) :
              SseBatchStates(s, t, batch)[n] =
                ApplyStreamingSseEvent(SseBatchStates(s, t, batch)[n - 1], t, batch[n])
<1>1. Len(batch) \in Nat
  OBVIOUS
<1>2. IsRun(SseBatchStates(s, t, batch), s, t, batch, Len(batch))
  <2>1. \E g : IsRun(g, s, t, batch, Len(batch))
    BY <1>1, RunExists
  <2>2. SseBatchStates(s, t, batch) = CHOOSE g : IsRun(g, s, t, batch, Len(batch))
    BY DEF SseBatchStates, IsRun
  <2> QED
    BY <2>1, <2>2, Zenon
<1>3. SseBatchStates(s, t, batch) =
        [n \in 0..Len(batch) |->
           IF n = 0 THEN s
           ELSE ApplyStreamingSseEvent(SseBatchStates(s, t, batch)[n - 1], t, batch[n])]
  BY <1>2 DEF IsRun
<1>4. 0 \in 0..Len(batch) /\ \A n \in 1..Len(batch) : n \in 0..Len(batch) /\ n # 0
  BY <1>1
<1> QED
  BY <1>3, <1>4, Zenon

\* The states of the reducer, with a text of any length.
ReducerState ==
  [status : {"idle", "pending", "started"}, chat : Chat \cup {NoChat},
   message : Turn \cup {NoTurn}, buffer : Nat]

Quiet(batch, n) == \A i \in 1..n : batch[i] \notin TerminalEvent

(***************************************************************************)
(* What is left of state s after the first n events of a batch: nothing    *)
(* after a terminal event, the turn and its deltas before, and never more. *)
(***************************************************************************)
BatchClaim(s, t, batch, n) ==
  LET r == SseBatchStates(s, t, batch)[n]
      d == Deltas(SubSeq(batch, 1, n))
  IN /\ r \in ReducerState
     /\ r.buffer <= s.buffer + d
     /\ r.status # "started" => r.buffer = 0
     /\ r.status # "idle" => s.status # "idle" /\ r.chat = s.chat
     /\ r.status = "started" =>
          r.message = IF s.status = "started" THEN s.message ELSE t
     /\ s.status = "started" /\ Quiet(batch, n) =>
          r.status = "started" /\ r.buffer = s.buffer + d
     /\ ~Quiet(batch, n) => r.status = "idle"

LEMMA EventKeepsClaim ==
  ASSUME NEW s \in ReducerState, NEW t \in Turn, NEW batch \in Seq(Event),
         NEW n \in 1..Len(batch), BatchClaim(s, t, batch, n - 1)
  PROVE  BatchClaim(s, t, batch, n)
<1> DEFINE q == SseBatchStates(s, t, batch)[n - 1]
           r == SseBatchStates(s, t, batch)[n]
           c == Deltas(SubSeq(batch, 1, n - 1))
           d == Deltas(SubSeq(batch, 1, n))
           e == batch[n]
<1>1. Len(batch) \in Nat /\ e \in Event /\ n \in Nat /\ n - 1 \in 0..Len(batch)
  OBVIOUS
<1>2. r = ApplyStreamingSseEvent(q, t, e)
  BY SseBatchUnfolds
<1>3. c \in Nat /\ d = c + (IF e = "delta" THEN 1 ELSE 0)
  <2>1. SubSeq(batch, 1, n - 1) \in Seq(Event)
    BY <1>1, Chunk
  <2> QED
    BY <2>1, NextDelta, DeltasType
<1>4. Quiet(batch, n) <=> Quiet(batch, n - 1) /\ e \notin TerminalEvent
  <2>1. \A i \in 1..n : i \in 1 .. n - 1 \/ i = n
    BY <1>1
  <2>2. n \in 1..n /\ \A i \in 1 .. n - 1 : i \in 1..n
    BY <1>1
  <2> QED
    BY <2>1, <2>2 DEF Quiet
<1>5. /\ q \in ReducerState
      /\ q.buffer <= s.buffer + c
      /\ q.status # "started" => q.buffer = 0
      /\ q.status # "idle" => s.status # "idle" /\ q.chat = s.chat
      /\ q.status = "started" =>
           q.message = IF s.status = "started" THEN s.message ELSE t
      /\ s.status = "started" /\ Quiet(batch, n - 1) =>
           q.status = "started" /\ q.buffer = s.buffer + c
      /\ ~Quiet(batch, n - 1) => q.status = "idle"
  BY DEF BatchClaim
<1> HIDE DEF q, r, c, d, e
<1>6. s.buffer \in Nat /\ q.buffer \in Nat
  BY <1>5 DEF ReducerState
<1>7. Idle \in ReducerState /\ Idle.status = "idle" /\ Idle.buffer = 0
  BY DEF Idle, ReducerState
<1>8. /\ r \in ReducerState
      /\ r.buffer <= s.buffer + d
      /\ r.status # "started" => r.buffer = 0
      /\ r.status # "idle" => s.status # "idle" /\ r.chat = s.chat
      /\ r.status = "started" =>
           r.message = IF s.status = "started" THEN s.message ELSE t
      /\ s.status = "started" /\ Quiet(batch, n) =>
           r.status = "started" /\ r.buffer = s.buffer + d
      /\ ~Quiet(batch, n) => r.status = "idle"
  <2>1. CASE e \in TerminalEvent
    <3>1. r = Idle
      BY <1>2, <2>1 DEF ApplyStreamingSseEvent, TerminalEvent
    <3>2. 0 <= s.buffer + d
      BY <1>3, <1>6
    <3> QED
      BY <1>4, <1>7, <2>1, <3>1, <3>2
  <2>2. CASE e = "start" /\ q.status = "pending"
    <3>1. r = [q EXCEPT !.status = "started", !.message = t, !.buffer = 0]
      BY <1>2, <2>2 DEF ApplyStreamingSseEvent
    <3>2. /\ r \in ReducerState /\ r.status = "started" /\ r.message = t
          /\ r.buffer = 0 /\ r.chat = q.chat
      BY <1>5, <3>1 DEF ReducerState
    <3>3. s.status # "started" \/ ~Quiet(batch, n - 1)
      BY <1>5, <2>2
    <3>4. Quiet(batch, n - 1) /\ s.status # "started" /\ s.status # "idle"
      BY <1>5, <2>2, <3>3
    <3> QED
      BY <1>3, <1>4, <1>5, <1>6, <2>2, <3>2, <3>4 DEF TerminalEvent
  <2>3. CASE e = "delta" /\ q.status = "started"
    <3>1. r = [q EXCEPT !.buffer = @ + 1]
      BY <1>2, <2>3 DEF ApplyStreamingSseEvent
    <3>2. /\ r \in ReducerState /\ r.status = "started" /\ r.message = q.message
          /\ r.buffer = q.buffer + 1 /\ r.chat = q.chat
      BY <1>5, <2>3, <3>1 DEF ReducerState
    <3>3. d = c + 1 /\ e \notin TerminalEvent
      BY <1>3, <2>3 DEF TerminalEvent
    <3> QED
      BY <1>3, <1>4, <1>5, <1>6, <2>3, <3>2, <3>3
  <2>4. CASE /\ e \notin TerminalEvent
             /\ ~(e = "start" /\ q.status = "pending")
             /\ ~(e = "delta" /\ q.status = "started")
    <3>1. r = q
      BY <1>2, <2>4 DEF ApplyStreamingSseEvent, TerminalEvent
    <3>2. r.buffer <= s.buffer + d
      BY <1>3, <1>5, <1>6, <3>1
    <3>3. q.status = "started" => d = c
      BY <1>3, <2>4
    <3> QED
      BY <1>4, <1>5, <2>4, <3>1, <3>2, <3>3
  <2> QED
    BY <2>1, <2>2, <2>3, <2>4
<1> QED
  BY <1>8 DEF BatchClaim, r, d

LEMMA BatchKeepsClaim ==
  ASSUME NEW s \in ReducerState, NEW t \in Turn, NEW batch \in Seq(Event),
         s.status # "started" => s.buffer = 0,
         NEW n \in 0..Len(batch)
  PROVE  BatchClaim(s, t, batch, n)
<1> DEFINE T == {k \in 0..Len(batch) : ~BatchClaim(s, t, batch, k)}
<1> SUFFICES ASSUME T # {} PROVE FALSE
  OBVIOUS
<1>1. Len(batch) \in Nat /\ T \subseteq Nat
  OBVIOUS
<1>2. PICK least \in T : \A k \in T : << k, least >> \notin OpToRel(<, Nat)
  BY <1>1, WFMin, NatLessThanWellFounded, Zenon
<1>3. least \in Nat /\ \A k \in T : ~(k < least)
  BY <1>1, <1>2, Zenon DEF OpToRel
<1>4. CASE least = 0
  <2>1. SubSeq(batch, 1, 0) = << >>
    BY SubSeqEmpty
  <2>2. Deltas(SubSeq(batch, 1, 0)) = 0
    BY <2>1, NoEvents
  <2>3. Quiet(batch, 0)
    BY DEF Quiet
  <2>4. SseBatchStates(s, t, batch)[0] = s
    BY SseBatchUnfolds
  <2>5. s.buffer \in Nat /\ s.buffer + 0 = s.buffer /\ s.buffer <= s.buffer + 0
    BY DEF ReducerState
  <2>6. BatchClaim(s, t, batch, 0)
    BY <2>2, <2>3, <2>4, <2>5 DEF BatchClaim
  <2> QED
    BY <1>2, <1>4, <2>6
<1>5. CASE least # 0
  <2>0. least \in 0..Len(batch)
    BY <1>2
  <2>1. least \in 1..Len(batch) /\ least - 1 \in 0..Len(batch) /\ least - 1 < least
    BY <1>1, <1>3, <1>5, <2>0
  <2>2. BatchClaim(s, t, batch, least - 1)
    BY <1>3, <2>1
  <2> QED
    BY <1>2, <2>1, <2>2, EventKeepsClaim
<1> QED
  BY <1>4, <1>5


LEMMA MinIsLeast ==
  ASSUME NEW S \in SUBSET Nat, S # {}
  PROVE  Min(S) \in S /\ \A x \in S : Min(S) <= x
<1>1. PICK least \in S : \A k \in S : << k, least >> \notin OpToRel(<, Nat)
  BY WFMin, NatLessThanWellFounded, Zenon
<1>2. \A k \in S : ~(k < least)
  BY <1>1, Zenon DEF OpToRel
<1>3. \A k \in S : least <= k
  BY <1>2
<1> QED
  BY <1>1, <1>3 DEF Min

\* Nothing but the done event follows a terminal event, and an error stands alone.
InOrder(batch) ==
  \A i, j \in 1..Len(batch) :
    batch[i] \in TerminalEvent =>
      /\ j > i => batch[j] # "delta"
      /\ batch[j] = "error" => j = i

LEMMA ErrorKeepsText ==
  ASSUME NEW s \in ReducerState, NEW t \in Turn, NEW batch \in Seq(Event),
         s.status # "started" => s.buffer = 0
  PROVE  LET broken == StateBeforeError(s, t, batch)
         IN /\ broken.buffer \in Nat
            /\ broken.buffer <= s.buffer + Deltas(batch)
            /\ ~Contains(batch, "error") => broken.buffer = 0
            /\ s.status = "started" /\ Contains(batch, "error") /\ InOrder(batch) =>
                 broken.buffer = s.buffer + Deltas(batch)
<1> DEFINE Errors == {i \in 1..Len(batch) : batch[i] = "error"}
           first == IF Errors # {} THEN Min(Errors) ELSE 0
<1>1. Len(batch) \in Nat /\ s.buffer \in Nat /\ Deltas(batch) \in Nat
  BY DeltasType DEF ReducerState
<1>2. StateBeforeError(s, t, batch) =
        IF first = 0 THEN Idle ELSE SseBatchStates(s, t, batch)[first - 1]
  BY DEF StateBeforeError, SelectInSeq
<1>3. Contains(batch, "error") <=> Errors # {}
  BY DEF Contains
<1>4. CASE Errors = {}
  BY <1>1, <1>2, <1>3, <1>4 DEF Idle
<1>5. CASE Errors # {}
  <2>1. first \in Errors /\ \A i \in Errors : first <= i
    <3>1. Errors \in SUBSET Nat
      OBVIOUS
    <3> HIDE DEF Errors
    <3> QED
      BY <1>5, <3>1, MinIsLeast
  <2>2. first \in 1..Len(batch) /\ batch[first] = "error"
    BY <2>1
  <2> DEFINE q == SseBatchStates(s, t, batch)[first - 1]
             before == Deltas(SubSeq(batch, 1, first - 1))
             after == Deltas(SubSeq(batch, first - 1 + 1, Len(batch)))
  <2> HIDE DEF first, Errors
  <2>3. StateBeforeError(s, t, batch) = q
    BY <1>2, <2>2
  <2>4. first - 1 \in 0..Len(batch)
    BY <1>1, <2>2
  <2>5. BatchClaim(s, t, batch, first - 1)
    BY <2>4, BatchKeepsClaim
  <2>6. /\ Deltas(batch) = before + after
        /\ SubSeq(batch, first - 1 + 1, Len(batch)) \in Seq(Event)
        /\ Len(SubSeq(batch, first - 1 + 1, Len(batch))) = Len(batch) - (first - 1)
        /\ \A i \in 1 .. Len(batch) - (first - 1) :
             SubSeq(batch, first - 1 + 1, Len(batch))[i] = batch[first - 1 + i]
        /\ SubSeq(batch, 1, first - 1) \in Seq(Event)
    BY <2>4, Chunk
  <2>7. before \in Nat /\ after \in Nat
    BY <2>6, DeltasType
  <2>8. q.buffer \in Nat /\ q.buffer <= s.buffer + before
    BY <2>5 DEF BatchClaim, ReducerState
  <2>9. ASSUME s.status = "started", InOrder(batch)
        PROVE  q.buffer = s.buffer + before /\ after = 0
    <3>1. ASSUME NEW i \in 1 .. first - 1 PROVE batch[i] \notin TerminalEvent
      <4>1. i \in 1..Len(batch) /\ i # first
        BY <2>2, <3>1
      <4> QED
        BY <2>2, <2>9, <4>1 DEF InOrder
    <3>2. q.buffer = s.buffer + before
      BY <2>5, <2>9, <3>1 DEF BatchClaim, Quiet
    <3>3. ASSUME NEW i \in 1 .. Len(batch) - (first - 1)
          PROVE  SubSeq(batch, first - 1 + 1, Len(batch))[i] # "delta"
      <4>1. first - 1 + i \in 1..Len(batch) /\ (first - 1 + i = first \/ first - 1 + i > first)
        BY <1>1, <2>2, <3>3
      <4>2. batch[first - 1 + i] # "delta"
        BY <2>2, <2>9, <4>1 DEF InOrder, TerminalEvent
      <4> QED
        BY <2>6, <4>2
    <3>4. after = 0
      BY <2>6, <3>3, NoDeltas
    <3> QED
      BY <3>2, <3>4
  <2> HIDE DEF q, before, after
  <2>10. q.buffer <= s.buffer + Deltas(batch)
    BY <1>1, <2>6, <2>7, <2>8
  <2>11. s.status = "started" /\ InOrder(batch) => q.buffer = s.buffer + Deltas(batch)
    BY <1>1, <2>6, <2>7, <2>9
  <2> QED
    BY <1>3, <1>5, <2>3, <2>8, <2>10, <2>11
<1> QED
  BY <1>4, <1>5


-----------------------------------------------------------------------------
(***************************************************************************)
(* Lists of messages.                                                      *)
(***************************************************************************)
MessageData == [loaded : BOOLEAN, stale : BOOLEAN, rows : SUBSET Row]

LEMMA RowTypes ==
  ASSUME NEW t \in Turn, NEW n \in 0..MaxDeltas
  PROVE  UserRow(t) \in Row /\ AssistantRow(t, n) \in Row
<1>1. 0 \in 0..MaxDeltas
  BY ChatAssumption
<1> QED
  BY <1>1 DEF UserRow, AssistantRow, Row

LEMMA Prepended ==
  ASSUME NEW data \in MessageData, NEW row \in Row
  PROVE  LET new == PrependMessage(data, row)
         IN /\ new \in MessageData
            /\ new.loaded
            /\ new.rows \in SUBSET (data.rows \cup {row})
            /\ data.rows \subseteq new.rows
            /\ \E r \in new.rows : /\ r.role = row.role /\ r.turn = row.turn
                                   /\ r = row \/ r \in data.rows
BY DEF PrependMessage, Data, MessageData

LEMMA PrependedAnswer ==
  ASSUME NEW data \in MessageData, NEW t \in Turn, NEW n \in 0..MaxDeltas
  PROVE  LET new == PrependCachedAssistantMessage(data, t, n)
         IN /\ new \in MessageData
            /\ data.loaded => new.loaded
            /\ new.rows \in SUBSET (data.rows \cup {AssistantRow(t, n)})
            /\ n # 0 =>
                 \E r \in new.rows : /\ r.role = "assistant" /\ r.turn = t
                                     /\ r.text = n \/ r \in data.rows
<1>1. AssistantRow(t, n) \in Row
  BY RowTypes
<1>2. /\ AssistantRow(t, n).role = "assistant"
      /\ AssistantRow(t, n).turn = t
      /\ AssistantRow(t, n).text = n
  BY DEF AssistantRow
<1>3. CASE n = 0
  BY <1>3 DEF PrependCachedAssistantMessage
<1>4. CASE n # 0
  <2> DEFINE new == PrependMessage(data, AssistantRow(t, n))
  <2>1. PrependCachedAssistantMessage(data, t, n) = new
    BY <1>4 DEF PrependCachedAssistantMessage
  <2>2. /\ new \in MessageData /\ new.loaded
        /\ new.rows \in SUBSET (data.rows \cup {AssistantRow(t, n)})
        /\ \E r \in new.rows : /\ r.role = "assistant" /\ r.turn = t
                               /\ r = AssistantRow(t, n) \/ r \in data.rows
    BY <1>1, <1>2, Prepended
  <2> HIDE DEF new
  <2> QED
    BY <1>2, <2>1, <2>2
<1> QED
  BY <1>3, <1>4

-----------------------------------------------------------------------------
(***************************************************************************)
(* Type correctness.                                                       *)
(***************************************************************************)
LEMMA TypeInit == Init => TypeOK
<1> SUFFICES ASSUME Init PROVE TypeOK
  OBVIOUS
<1>1. 0 \in 0..MaxTurns /\ 0 \in 0..MaxDeltas /\ 0 \in 0..FaultLimit
  BY ChatAssumption
<1>2. /\ Idle \in [status : {"idle", "pending", "started"}, chat : Chat \cup {NoChat},
                   message : Turn \cup {NoTurn}, buffer : 0 .. MaxDeltas]
      /\ NoSubmission \in [phase : {"none", "creating", "reading"},
                           chat : Chat \cup {NoChat}, route : Chat \cup {NoChat}]
      /\ NoData \in [loaded : BOOLEAN, stale : BOOLEAN, rows : SUBSET Row]
      /\ NoLoad \in [phase : {"none", "requested", "read"}, rows : SUBSET Row]
  BY <1>1 DEF Idle, NoSubmission, NoData, NoLoad
<1>3. wire \in [Turn -> Seq(Event)]
  BY DEF Init
<1>4. server \in [Turn -> [phase : {"none", "requested", "asking", "stored", "ended"},
                          chat : Chat \cup {NoChat}, sent : 0 .. MaxDeltas]]
  BY <1>1 DEF Init
<1>5. /\ chats \in [Chat -> {"none", "exists", "deleted"}]
      /\ connection \in [Turn -> {"none", "open", "closed", "lost", "httpError",
                                 "notFound", "left"}]
      /\ messages \in [Chat -> SUBSET Row]
  BY DEF Init
<1>6. /\ cache \in [Chat -> [loaded : BOOLEAN, stale : BOOLEAN, rows : SUBSET Row]]
      /\ load \in [Chat -> [phase : {"none", "requested", "read"}, rows : SUBSET Row]]
  BY <1>2 DEF Init
<1>7. /\ state = Idle /\ bootstrap = NoChat /\ turnLock = FALSE /\ createdChat = FALSE
      /\ controller = NoTurn /\ aborted = FALSE /\ active = NoChat
      /\ submission = NoSubmission /\ turns = 0 /\ faults = 0
  BY DEF Init
<1> QED
  BY <1>1, <1>2, <1>3, <1>4, <1>5, <1>6, <1>7, Zenon DEF TypeOK, NoTurn

LEMMA EventSequences ==
  /\ << >> \in Seq(Event)
  /\ <<"start">> \in Seq(Event) /\ <<"delta">> \in Seq(Event)
  /\ <<"error">> \in Seq(Event) /\ <<"completed">> \in Seq(Event)
  /\ <<"done">> \in Seq(Event) /\ <<"completed", "done">> \in Seq(Event)
BY DEF Event

LEMMA Emitted ==
  ASSUME TypeOK, NEW t \in Turn, NEW events \in Seq(Event), Emit(t, events)
  PROVE  /\ wire' \in [Turn -> Seq(Event)]
         /\ \A u \in Turn \ {t} : wire'[u] = wire[u]
         /\ wire'[t] = IF connection[t] = "open" THEN wire[t] \o events ELSE wire[t]
<1>1. wire[t] \in Seq(Event)
  BY DEF TypeOK
<1>2. wire[t] \o events \in Seq(Event)
  BY <1>1, ConcatProperties
<1> QED
  BY <1>2 DEF Emit, TypeOK

LEMMA TypeFault == TypeOK /\ Fault => faults' \in 0..FaultLimit
BY ChatAssumption DEF TypeOK, Fault

LEMMA TypeServe ==
  ASSUME TypeOK, NEW t \in Turn, Serve(t) \/ LoseConnection(t),
         server[t].phase # "none" => server[t].chat \in Chat
  PROVE  TypeOK'
<1> DEFINE ServerType == [phase : {"none", "requested", "asking", "stored", "ended"},
                          chat : Chat \cup {NoChat}, sent : 0 .. MaxDeltas]
           ConnectionType == {"none", "open", "closed", "lost", "httpError", "notFound", "left"}
<1>1. /\ server \in [Turn -> ServerType]
      /\ connection \in [Turn -> ConnectionType]
      /\ wire \in [Turn -> Seq(Event)]
      /\ messages \in [Chat -> SUBSET Row]
      /\ faults \in 0..FaultLimit
  BY DEF TypeOK
<1>2. SUFFICES
        /\ UNCHANGED <<panelVars, cacheVars, chats>>
        /\ server' \in [Turn -> ServerType]
        /\ connection' \in [Turn -> ConnectionType]
        /\ wire' \in [Turn -> Seq(Event)]
        /\ messages' \in [Chat -> SUBSET Row]
        /\ faults' \in 0..FaultLimit
  BY SMTT(60) DEF TypeOK, panelVars, cacheVars
<1>3. Close(t) => connection' \in [Turn -> ConnectionType]
  BY <1>1 DEF Close
<1>4. UserRow(t) \in Row /\ AssistantRow(t, server[t].sent) \in Row
  BY <1>1, RowTypes
<1>5. \A p \in {"asking", "stored", "ended"} :
        [server EXCEPT ![t].phase = p] \in [Turn -> ServerType]
  BY ZenonT(30), <1>1
<1>6. server[t].phase # "none" =>
        \A rows \in SUBSET Row :
          [messages EXCEPT ![server[t].chat] = @ \cup rows] \in [Chat -> SUBSET Row]
  BY <1>1
<1>7. \A events \in Seq(Event) : Emit(t, events) => wire' \in [Turn -> Seq(Event)]
  BY Emitted
<1> HIDE DEF ServerType, ConnectionType
<1>8. CASE ReceiveMessage(t)
  <2>1. UNCHANGED <<panelVars, cacheVars, chats, connection, faults>>
    BY <1>8 DEF ReceiveMessage
  <2>2. wire' \in [Turn -> Seq(Event)]
    BY <1>7, <1>8, EventSequences DEF ReceiveMessage
  <2>3. server' \in [Turn -> ServerType] /\ messages' \in [Chat -> SUBSET Row]
    BY <1>4, <1>5, <1>6, <1>8 DEF ReceiveMessage
  <2> QED
    BY <1>1, <2>1, <2>2, <2>3
<1>9. CASE RejectMessage(t)
  <2>1. /\ UNCHANGED <<panelVars, cacheVars, chats, messages, wire>>
        /\ server' \in [Turn -> ServerType]
    BY <1>5, <1>9 DEF RejectMessage
  <2>2. connection' \in [Turn -> ConnectionType]
    BY <1>1, <1>9 DEF RejectMessage, ConnectionType
  <2>3. faults' \in 0..FaultLimit
    BY <1>1, <1>9, TypeFault DEF RejectMessage
  <2> QED
    BY <1>1, <2>1, <2>2, <2>3
<1>10. CASE FailBeforeAnswer(t)
  <2>1. UNCHANGED <<panelVars, cacheVars, chats>> /\ faults' \in 0..FaultLimit
    BY <1>10, TypeFault DEF FailBeforeAnswer
  <2>2. wire' \in [Turn -> Seq(Event)] /\ connection' \in [Turn -> ConnectionType]
    BY <1>3, <1>7, <1>10, EventSequences DEF FailBeforeAnswer
  <2>3. server' \in [Turn -> ServerType]
    BY <1>5, <1>10 DEF FailBeforeAnswer
  <2>4. messages' \in [Chat -> SUBSET Row]
    <3>1. {} \in SUBSET Row /\ {UserRow(t)} \in SUBSET Row
      BY <1>4
    <3> QED
      BY <1>6, <1>10, <3>1 DEF FailBeforeAnswer
  <2> QED
    BY <2>1, <2>2, <2>3, <2>4
<1>11. CASE StreamDelta(t)
  <2>1. server[t].sent + 1 \in 0..MaxDeltas
    BY <1>1, <1>11, ChatAssumption DEF StreamDelta, ServerType
  <2>2. server' \in [Turn -> ServerType]
    BY <1>1, <1>11, <2>1 DEF StreamDelta, ServerType
  <2>3. wire' \in [Turn -> Seq(Event)]
    BY <1>7, <1>11, EventSequences DEF StreamDelta
  <2> QED
    BY <1>1, <1>11, <2>2, <2>3 DEF StreamDelta
<1>12. CASE StoreAnswer(t)
  <2>1. server' \in [Turn -> ServerType] /\ messages' \in [Chat -> SUBSET Row]
    BY <1>4, <1>5, <1>6, <1>12 DEF StoreAnswer
  <2> QED
    BY <1>1, <1>12, <2>1 DEF StoreAnswer, netVars
<1>13. CASE FailTurn(t)
  <2>1. wire' \in [Turn -> Seq(Event)] /\ connection' \in [Turn -> ConnectionType]
    BY <1>3, <1>7, <1>13, EventSequences DEF FailTurn
  <2>2. UNCHANGED <<panelVars, cacheVars, chats, messages>> /\ faults' \in 0..FaultLimit
    BY <1>1, <1>13, TypeFault DEF FailTurn
  <2> QED
    BY <1>1, <1>5, <1>13, <2>1, <2>2 DEF FailTurn
<1>14. CASE CompleteTurn(t)
  <2>1. UNCHANGED <<panelVars, cacheVars, chats, messages>> /\ faults' \in 0..FaultLimit
    BY <1>1, <1>14, TypeFault DEF CompleteTurn
  <2>2. wire' \in [Turn -> Seq(Event)]
    BY <1>7, <1>14, EventSequences DEF CompleteTurn
  <2> QED
    BY <1>1, <1>3, <1>5, <1>14, <2>1, <2>2 DEF CompleteTurn
<1>15. CASE LoseConnection(t)
  <2>1. connection' \in [Turn -> ConnectionType]
    BY <1>1, <1>15 DEF LoseConnection, ConnectionType
  <2> QED
    BY <1>1, <1>15, <2>1, TypeFault DEF LoseConnection, serverVars
<1> QED
  BY <1>8, <1>9, <1>10, <1>11, <1>12, <1>13, <1>14, <1>15 DEF Serve

LEMMA TypeBeginTurn ==
  ASSUME TypeOK, NEW c \in Chat, NEW route \in Chat \cup {NoChat}, turns < MaxTurns,
         BeginTurn(c, route)
  PROVE  /\ turns' \in 1..MaxTurns
         /\ cache' \in [Chat -> MessageData]
         /\ server' \in [Turn -> [phase : {"none", "requested", "asking", "stored", "ended"},
                                  chat : Chat \cup {NoChat}, sent : 0 .. MaxDeltas]]
         /\ connection' \in [Turn -> {"none", "open", "closed", "lost", "httpError",
                                      "notFound", "left"}]
         /\ state' \in [status : {"idle", "pending", "started"}, chat : Chat \cup {NoChat},
                        message : Turn \cup {NoTurn}, buffer : 0 .. MaxDeltas]
         /\ submission' \in [phase : {"none", "creating", "reading"},
                             chat : Chat \cup {NoChat}, route : Chat \cup {NoChat}]
         /\ controller' \in Turn
         /\ bootstrap' = c
<1>1. turns + 1 \in Turn /\ turns + 1 \in 1..MaxTurns /\ 0 \in 0..MaxDeltas
  BY ChatAssumption DEF TypeOK, Turn
<1>2. PrependMessage(cache[c], UserRow(turns + 1)) \in MessageData
  BY <1>1, RowTypes, Prepended DEF TypeOK, MessageData
<1>3. cache' \in [Chat -> MessageData]
  BY <1>2 DEF BeginTurn, TypeOK, MessageData
<1>4. state' \in [status : {"idle", "pending", "started"}, chat : Chat \cup {NoChat},
                  message : Turn \cup {NoTurn}, buffer : 0 .. MaxDeltas]
  BY <1>1 DEF BeginTurn, Pending, Idle
<1> QED
  BY <1>1, <1>3, <1>4 DEF BeginTurn, TypeOK


-----------------------------------------------------------------------------
(***************************************************************************)
(* One chunk of the response.                                              *)
(***************************************************************************)
BatchEffect(batch, text) ==
  LET t == turns
      c == submission.chat
  IN /\ Len(batch) \in 1..Len(wire[t])
     /\ batch = SubSeq(wire[t], 1, Len(batch))
     /\ \A i \in 1..Len(batch) : batch[i] = wire[t][i]
     /\ wire' \in [Turn -> Seq(Event)]
     /\ \A u \in Turn \ {t} : wire'[u] = wire[u]
     /\ Len(wire'[t]) = Len(wire[t]) - Len(batch)
     /\ \A i \in 1..Len(wire'[t]) : wire'[t][i] = wire[t][Len(batch) + i]
     /\ Deltas(wire[t]) = Deltas(batch) + Deltas(wire'[t])
     /\ state' \in ReducerState
     /\ state'.buffer <= state.buffer + Deltas(batch)
     /\ state'.status # "started" => state'.buffer = 0
     /\ state'.status # "idle" => state.status # "idle" /\ state'.chat = state.chat
     /\ state'.status = "started" =>
          state'.message = IF state.status = "started" THEN state.message ELSE t
     /\ state.status = "started" /\ Quiet(batch, Len(batch)) => state'.status = "started"
     /\ ~Quiet(batch, Len(batch)) => state'.status = "idle"
     /\ text <= server[t].sent
     /\ ~Contains(batch, "error") => text = 0
     /\ state.status = "started" /\ Contains(batch, "error") =>
          text = state.buffer + Deltas(batch)
     /\ cache' = [cache EXCEPT ![c] =
                    InvalidateIfDone(
                      CompleteInCache(PrependCachedAssistantMessage(@, t, text), t, batch),
                      batch)]

LEMMA WireTypes ==
  ASSUME TypeOK, NEW t \in Turn
  PROVE  /\ wire[t] \in Seq(Event)
         /\ Len(wire[t]) \in Nat
         /\ DOMAIN wire[t] = 1..Len(wire[t])
         /\ Deltas(wire[t]) \in Nat
         /\ server[t].sent \in 0..MaxDeltas /\ server[t].sent \in Nat
<1>1. wire[t] \in Seq(Event) /\ server[t].sent \in 0..MaxDeltas
  BY DEF TypeOK
<1>2. Len(wire[t]) \in Nat /\ DOMAIN wire[t] = 1..Len(wire[t])
  BY <1>1
<1> QED
  BY <1>1, <1>2, DeltasType, ChatAssumption

LEMMA ReadingTurn ==
  ASSUME TurnInvariant, Reading
  PROVE  /\ turns \in Turn /\ submission.chat \in Chat
         /\ controller = turns /\ turnLock
         /\ server[turns].chat = submission.chat
         /\ server[turns].phase # "none"
<1>1. turns \in Turn
  BY DEF TurnInvariant, PanelInvariant, TypeOK, SubmissionOwnsTurn, Turn, NoTurn
<1> QED
  BY <1>1 DEF TurnInvariant, PanelInvariant, TypeOK, SubmissionOwnsTurn, EventsInOrder,
     Turn, Reading

LEMMA StateTypes ==
  ASSUME TypeOK
  PROVE  /\ state \in ReducerState
         /\ state.buffer \in 0..MaxDeltas /\ state.buffer \in Nat
         /\ \A c \in Chat \cup {NoChat} : Pending(c) \in ReducerState
<1>1. state.buffer \in Nat
  BY ChatAssumption DEF TypeOK
<1>2. \A c \in Chat \cup {NoChat} : Pending(c) \in ReducerState
  BY DEF Pending, Idle, ReducerState
<1> QED
  BY <1>1, <1>2 DEF TypeOK, ReducerState

LEMMA ReadBatch ==
  ASSUME TurnInvariant, ProcessStreamBatch
  PROVE  \E batch \in Seq(Event), text \in 0..MaxDeltas : BatchEffect(batch, text)
<1> DEFINE t == turns
           c == submission.chat
<1>1. /\ TypeOK /\ t \in Turn /\ c \in Chat /\ EventsInOrder /\ DeltasAreSent
  BY ReadingTurn DEF TurnInvariant, PanelInvariant, ProcessStreamBatch
<1>2. PICK n \in 1..Len(wire[t]) :
        LET batch == SubSeq(wire[t], 1, n)
            broken == StateBeforeError(RunningState, t, batch)
            kept == PrependCachedAssistantMessage(cache[c], t, broken.buffer)
        IN /\ cache' = [cache EXCEPT ![c] =
                          InvalidateIfDone(CompleteInCache(kept, t, batch), batch)]
           /\ state' = ApplySseBatch(state, t, batch)
           /\ wire' = [wire EXCEPT ![t] = SubSeq(@, n + 1, Len(@))]
  BY DEF ProcessStreamBatch
<1> DEFINE batch == SubSeq(wire[t], 1, n)
           rest == SubSeq(wire[t], n + 1, Len(wire[t]))
           text == StateBeforeError(RunningState, t, batch).buffer
<1>3. /\ wire[t] \in Seq(Event) /\ Len(wire[t]) \in Nat
      /\ DOMAIN wire[t] = 1..Len(wire[t])
      /\ n \in 0..Len(wire[t])
      /\ Deltas(wire[t]) \in Nat /\ server[t].sent \in 0..MaxDeltas
  BY <1>1, WireTypes
<1>4. /\ batch \in Seq(Event) /\ Len(batch) = n
      /\ \A i \in 1..n : batch[i] = wire[t][i]
      /\ rest \in Seq(Event) /\ Len(rest) = Len(wire[t]) - n
      /\ \A i \in 1 .. Len(wire[t]) - n : rest[i] = wire[t][n + i]
      /\ Deltas(wire[t]) = Deltas(batch) + Deltas(rest)
  BY <1>3, Chunk
<1>5. wire' \in [Turn -> Seq(Event)] /\ wire'[t] = rest
      /\ \A u \in Turn \ {t} : wire'[u] = wire[u]
  BY <1>1, <1>2, <1>4 DEF TypeOK
<1>6. state \in ReducerState /\ (state.status # "started" => state.buffer = 0)
  BY <1>1, StateTypes DEF DeltasAreSent
<1>7. BatchClaim(state, t, batch, n)
  <2>1. n \in 0..Len(batch)
    BY <1>4
  <2> HIDE DEF t, batch
  <2> QED
    BY <1>1, <1>4, <1>6, <2>1, BatchKeepsClaim
<1>8. state' = SseBatchStates(state, t, batch)[n] /\ SubSeq(batch, 1, n) = batch
  <2>1. SubSeq(batch, 1, Len(batch)) = batch
    BY <1>4, SubSeqFull
  <2> QED
    BY <1>2, <1>4, <2>1 DEF ApplySseBatch
<1>9. /\ state' \in ReducerState
      /\ state'.buffer <= state.buffer + Deltas(batch)
      /\ state'.status # "started" => state'.buffer = 0
      /\ state'.status # "idle" => state.status # "idle" /\ state'.chat = state.chat
      /\ state'.status = "started" =>
           state'.message = IF state.status = "started" THEN state.message ELSE t
      /\ state.status = "started" /\ Quiet(batch, n) => state'.status = "started"
      /\ ~Quiet(batch, n) => state'.status = "idle"
  <2> HIDE DEF t, batch
  <2> QED
    BY <1>7, <1>8 DEF BatchClaim
<1>10. /\ RunningState \in ReducerState
       /\ RunningState.status # "started" => RunningState.buffer = 0
       /\ state.status = "started" => RunningState = state
  <2>1. bootstrap \in Chat \cup {NoChat} /\ Pending(bootstrap).buffer = 0
    BY <1>1 DEF TypeOK, Pending, Idle
  <2>2. RunningState = state \/ RunningState = Pending(bootstrap)
    BY DEF RunningState
  <2>3. state.status = "started" => RunningState = state
    BY DEF RunningState, IsStreamingBusy
  <2> QED
    BY <1>1, <1>6, <2>1, <2>2, <2>3, StateTypes
<1>11. RunningState.buffer + Deltas(wire[t]) <= server[t].sent
  <2>1. CASE RunningState.status = "started"
    <3>1. RunningState = state /\ state.status = "started"
      BY <2>1 DEF RunningState, Pending, Idle
    <3> QED
      BY <1>1, <3>1 DEF DeltasAreSent
  <2>2. CASE RunningState.status # "started"
    <3>1. RunningState.buffer = 0 /\ Deltas(wire[t]) <= server[t].sent
      BY <1>1, <1>10, <2>2 DEF DeltasAreSent
    <3> QED
      BY <1>3, <3>1
  <2> QED
    BY <2>1, <2>2
<1>12. InOrder(batch)
  <2>1. ASSUME NEW i \in 1..n, NEW j \in 1..n, batch[i] \in TerminalEvent
        PROVE  (j > i => batch[j] # "delta") /\ (batch[j] = "error" => j = i)
    <3>1. i \in DOMAIN wire[t] /\ j \in DOMAIN wire[t]
      BY <1>3
    <3>2. wire[t][i] \in TerminalEvent /\ batch[j] = wire[t][j]
      BY <1>4, <2>1
    <3> QED
      BY <1>1, <3>1, <3>2 DEF EventsInOrder
  <2> QED
    BY <1>4, <2>1 DEF InOrder
<1>13. /\ text \in Nat
       /\ text <= RunningState.buffer + Deltas(batch)
       /\ ~Contains(batch, "error") => text = 0
       /\ state.status = "started" /\ Contains(batch, "error") =>
            text = state.buffer + Deltas(batch)
  <2> HIDE DEF t, batch
  <2> QED
    BY <1>1, <1>4, <1>10, <1>12, ErrorKeepsText
<1>14. text <= server[t].sent /\ text \in 0..MaxDeltas
  <2>1. Deltas(batch) \in Nat /\ Deltas(rest) \in Nat /\ RunningState.buffer \in Nat
    BY <1>4, <1>10, DeltasType DEF ReducerState
  <2> HIDE DEF text, rest, batch, t
  <2>2. text <= server[t].sent
    BY <1>3, <1>4, <1>11, <1>13, <2>1
  <2> QED
    BY <1>3, <1>13, <2>2, ChatAssumption
<1>15. cache' = [cache EXCEPT ![c] =
                   InvalidateIfDone(
                     CompleteInCache(PrependCachedAssistantMessage(@, t, text), t, batch),
                     batch)]
  BY <1>2
<1>16. BatchEffect(batch, text)
  <2>1. \A i \in 1..Len(wire'[t]) : wire'[t][i] = wire[t][Len(batch) + i]
    BY <1>4, <1>5
  <2> QED
    BY <1>2, <1>4, <1>5, <1>9, <1>13, <1>14, <1>15, <2>1 DEF BatchEffect
<1> QED
  BY <1>4, <1>14, <1>16


LEMMA CacheAfterBatch ==
  ASSUME NEW data \in MessageData, NEW t \in Turn, NEW text \in 0..MaxDeltas, NEW batch,
         server[t].sent \in 0..MaxDeltas
  PROVE  LET new == InvalidateIfDone(
                      CompleteInCache(PrependCachedAssistantMessage(data, t, text), t, batch),
                      batch)
         IN /\ new \in MessageData
            /\ data.loaded => new.loaded
            /\ new.rows \in SUBSET (data.rows \cup {AssistantRow(t, text),
                                                    AssistantRow(t, server[t].sent)})
            /\ text # 0 =>
                 \E r \in new.rows : /\ r.role = "assistant" /\ r.turn = t
                                     /\ r.text = text \/ r \in data.rows
            /\ Contains(batch, "completed") /\ text = 0 =>
                 \E r \in new.rows : /\ r.role = "assistant" /\ r.turn = t
                                     /\ r.text = server[t].sent \/ r \in data.rows
            /\ text = 0 /\ ~Contains(batch, "completed") => new.rows = data.rows
            /\ Contains(batch, "done") /\ data.loaded => new.stale
<1> DEFINE kept == PrependCachedAssistantMessage(data, t, text)
           full == CompleteInCache(kept, t, batch)
           new == InvalidateIfDone(full, batch)
           row == AssistantRow(t, server[t].sent)
<1>1. /\ kept \in MessageData
      /\ data.loaded => kept.loaded
      /\ kept.rows \in SUBSET (data.rows \cup {AssistantRow(t, text)})
      /\ text # 0 =>
           \E r \in kept.rows : /\ r.role = "assistant" /\ r.turn = t
                                /\ r.text = text \/ r \in data.rows
  BY PrependedAnswer
<1>2. text = 0 => kept = data
  BY DEF PrependCachedAssistantMessage
<1>3. row \in Row /\ row.role = "assistant" /\ row.turn = t /\ row.text = server[t].sent
  BY RowTypes DEF AssistantRow
<1> HIDE DEF kept
<1>4. /\ full \in MessageData
      /\ kept.loaded => full.loaded
      /\ full.rows \in SUBSET (kept.rows \cup {row})
      /\ kept.rows \subseteq full.rows
      /\ ~Contains(batch, "completed") => full.rows = kept.rows
      /\ Contains(batch, "completed") =>
           \E r \in full.rows : /\ r.role = "assistant" /\ r.turn = t
                                /\ r = row \/ r \in kept.rows
  <2>1. CASE Contains(batch, "completed")
    <3>1. full = PrependMessage(kept, row)
      BY <2>1 DEF CompleteInCache
    <3> HIDE DEF full, row
    <3> QED
      BY <1>1, <1>3, <2>1, <3>1, Prepended
  <2>2. CASE ~Contains(batch, "completed")
    <3>1. full = kept
      BY <2>2 DEF CompleteInCache
    <3> QED
      BY <1>1, <2>2, <3>1
  <2> QED
    BY <2>1, <2>2
<1> HIDE DEF full, row
<1>5. /\ new \in MessageData /\ new.loaded = full.loaded /\ new.rows = full.rows
      /\ Contains(batch, "done") /\ full.loaded => new.stale
  <2>1. CASE Contains(batch, "done")
    <3>1. new = [full EXCEPT !.stale = @ \/ full.loaded]
      BY <2>1 DEF InvalidateIfDone
    <3>2. full.stale \in BOOLEAN /\ full.loaded \in BOOLEAN
      BY <1>4 DEF MessageData
    <3> HIDE DEF new
    <3> QED
      BY <1>4, <3>1, <3>2 DEF MessageData
  <2>2. CASE ~Contains(batch, "done")
    BY <1>4, <2>2 DEF InvalidateIfDone
  <2> QED
    BY <2>1, <2>2
<1> HIDE DEF new
<1>6. new.rows \in SUBSET (data.rows \cup {AssistantRow(t, text), row})
  BY <1>1, <1>4, <1>5
<1>7. text # 0 => \E r \in new.rows : /\ r.role = "assistant" /\ r.turn = t
                                      /\ r.text = text \/ r \in data.rows
  BY <1>1, <1>4, <1>5
<1>8. Contains(batch, "completed") /\ text = 0 =>
        \E r \in new.rows : /\ r.role = "assistant" /\ r.turn = t
                            /\ r.text = server[t].sent \/ r \in data.rows
  BY <1>2, <1>3, <1>4, <1>5
<1>9. text = 0 /\ ~Contains(batch, "completed") => new.rows = data.rows
  BY <1>2, <1>4, <1>5
<1> QED
  BY <1>1, <1>4, <1>5, <1>6, <1>7, <1>8, <1>9 DEF new, full, kept, row

LEMMA Flushed ==
  ASSUME TypeOK, NEW c \in Chat, state.status = "started" => state.message \in Turn
  PROVE  LET new == FlushAssistantBuffer(cache, state, c)
         IN /\ new \in [Chat -> MessageData]
            /\ \A d \in Chat : cache[d].loaded => new[d].loaded
            /\ \A d \in Chat :
                 new[d].rows # cache[d].rows =>
                   /\ d = c /\ state.status = "started"
                   /\ new[d].rows \in
                        SUBSET (cache[d].rows \cup {AssistantRow(state.message, state.buffer)})
            /\ state.status = "started" /\ state.chat = c /\ state.buffer # 0 =>
                 \E r \in new[c].rows : /\ r.role = "assistant" /\ r.turn = state.message
                                        /\ r.text = state.buffer \/ r \in cache[c].rows
<1> DEFINE new == FlushAssistantBuffer(cache, state, c)
           kept == PrependCachedAssistantMessage(cache[c], state.message, state.buffer)
<1>1. cache \in [Chat -> MessageData] /\ state.buffer \in 0..MaxDeltas
  BY DEF TypeOK, MessageData
<1>2. CASE state.status = "started" /\ state.chat = c
  <2>1. /\ kept \in MessageData
        /\ cache[c].loaded => kept.loaded
        /\ kept.rows \in SUBSET (cache[c].rows \cup {AssistantRow(state.message, state.buffer)})
        /\ state.buffer # 0 =>
             \E r \in kept.rows : /\ r.role = "assistant" /\ r.turn = state.message
                                  /\ r.text = state.buffer \/ r \in cache[c].rows
    BY <1>1, <1>2, PrependedAnswer
  <2>2. new = [cache EXCEPT ![c] = kept]
    BY <1>2 DEF FlushAssistantBuffer
  <2> HIDE DEF kept, new
  <2>3. /\ new \in [Chat -> MessageData] /\ new[c] = kept
        /\ \A d \in Chat \ {c} : new[d] = cache[d]
    BY <1>1, <2>1, <2>2
  <2> QED
    BY <1>2, <2>1, <2>3 DEF new
<1>3. CASE ~(state.status = "started" /\ state.chat = c)
  <2>1. new = cache
    BY <1>3 DEF FlushAssistantBuffer
  <2> HIDE DEF new
  <2> QED
    BY <1>1, <1>3, <2>1 DEF new
<1> QED
  BY <1>2, <1>3

LEMMA TypeReadStream ==
  ASSUME TurnInvariant, ReadStream
  PROVE  TypeOK'
<1>1. TypeOK /\ Reading
  BY DEF TurnInvariant, PanelInvariant, ReadStream, ProcessStreamBatch, StreamEnds,
     StreamFails, ChatNotFound, StreamAborted
<1>2. turns \in Turn /\ submission.chat \in Chat
  BY <1>1, ReadingTurn
<1>3. /\ Idle \in [status : {"idle", "pending", "started"}, chat : Chat \cup {NoChat},
                   message : Turn \cup {NoTurn}, buffer : 0 .. MaxDeltas]
      /\ NoSubmission \in [phase : {"none", "creating", "reading"},
                           chat : Chat \cup {NoChat}, route : Chat \cup {NoChat}]
      /\ NoData \in [loaded : BOOLEAN, stale : BOOLEAN, rows : SUBSET Row]
      /\ NoLoad \in [phase : {"none", "requested", "read"}, rows : SUBSET Row]
  BY ChatAssumption DEF Idle, NoSubmission, NoData, NoLoad
<1>4. EndSubmission =>
        /\ createdChat' \in BOOLEAN /\ turnLock' \in BOOLEAN
        /\ submission' \in [phase : {"none", "creating", "reading"},
                            chat : Chat \cup {NoChat}, route : Chat \cup {NoChat}]
        /\ controller' \in Turn \cup {NoTurn} /\ aborted' \in BOOLEAN
  BY <1>1, <1>3 DEF EndSubmission, TypeOK, NoTurn
<1>5. Hangup =>
        /\ wire' \in [Turn -> Seq(Event)]
        /\ connection' \in [Turn -> {"none", "open", "closed", "lost", "httpError",
                                     "notFound", "left"}]
  <2>1. [wire EXCEPT ![turns] = <<>>] \in [Turn -> Seq(Event)]
    BY <1>1, EventSequences DEF TypeOK
  <2>2. [connection EXCEPT ![turns] = "left"] \in
          [Turn -> {"none", "open", "closed", "lost", "httpError", "notFound", "left"}]
    BY <1>1 DEF TypeOK
  <2> QED
    BY <2>1, <2>2 DEF Hangup
<1>6. SettleTurn =>
        /\ cache' \in [Chat -> [loaded : BOOLEAN, stale : BOOLEAN, rows : SUBSET Row]]
        /\ state' = Idle /\ EndSubmission
  <2>1. state.status = "started" => state.message \in Turn
    BY <1>2 DEF TurnInvariant, PanelInvariant, BusyPanelCanStop, IsStreamingBusy
  <2> QED
    BY <1>1, <1>2, <2>1, Flushed DEF SettleTurn, MessageData
<1>7. CASE ProcessStreamBatch
  <2>1. PICK batch \in Seq(Event), text \in 0..MaxDeltas : BatchEffect(batch, text)
    BY <1>7, ReadBatch
  <2>2. wire' \in [Turn -> Seq(Event)] /\ state' \in ReducerState
        /\ state'.buffer <= state.buffer + Deltas(batch)
    BY <2>1 DEF BatchEffect
  <2>3. state'.buffer \in 0..MaxDeltas
    <3>1. /\ Deltas(batch) \in Nat /\ Deltas(wire[turns]) \in Nat
          /\ server[turns].sent \in 0..MaxDeltas /\ state.buffer \in Nat
      BY <1>1, <1>2, DeltasType, WireTypes, StateTypes
    <3>2. Deltas(wire'[turns]) \in Nat
      BY <1>2, <2>2, DeltasType
    <3>3. Deltas(wire[turns]) = Deltas(batch) + Deltas(wire'[turns])
      BY <2>1 DEF BatchEffect
    <3>4. state.buffer + Deltas(wire[turns]) <= server[turns].sent
      <4>1. CASE state.status = "started"
        BY <4>1 DEF TurnInvariant, DeltasAreSent
      <4>2. CASE state.status # "started"
        BY <1>2, <3>1, <4>2 DEF TurnInvariant, DeltasAreSent
      <4> QED
        BY <4>1, <4>2
    <3>5. state'.buffer \in Nat
      BY <2>2 DEF ReducerState
    <3>6. \A a, d, e, w, n, x \in Nat : /\ x <= a + d
                                        /\ w = d + e
                                        /\ a + w <= n
                                        => x <= n
      OBVIOUS
    <3>7. state'.buffer <= server[turns].sent
      BY <2>2, <3>1, <3>2, <3>3, <3>4, <3>5, <3>6, ChatAssumption
    <3> QED
      BY <3>1, <3>5, <3>7, ChatAssumption
  <2>4. state' \in [status : {"idle", "pending", "started"}, chat : Chat \cup {NoChat},
                    message : Turn \cup {NoTurn}, buffer : 0 .. MaxDeltas]
    BY <2>2, <2>3 DEF ReducerState
  <2>5. cache' \in [Chat -> [loaded : BOOLEAN, stale : BOOLEAN, rows : SUBSET Row]]
    <3>1. cache[submission.chat] \in MessageData /\ server[turns].sent \in 0..MaxDeltas
      BY <1>1, <1>2, WireTypes DEF TypeOK, MessageData
    <3>2. PICK new \in MessageData : cache' = [cache EXCEPT ![submission.chat] = new]
      BY ZenonT(30), <1>2, <2>1, <3>1, CacheAfterBatch DEF BatchEffect
    <3> QED
      BY <1>1, <1>2, <3>2 DEF TypeOK, MessageData
  <2>6. createdChat' \in BOOLEAN /\ bootstrap' = NoChat
    BY <1>1, <1>7 DEF ProcessStreamBatch, TypeOK, Contains
  <2>7. UNCHANGED <<turnLock, controller, aborted, active, submission, turns, load,
                    chats, serverVars, connection, faults>>
    BY <1>7 DEF ProcessStreamBatch
  <2> QED
    BY <1>1, <2>2, <2>4, <2>5, <2>6, <2>7 DEF TypeOK, serverVars
<1>8. CASE StreamEnds \/ StreamFails \/ StreamAborted
  <2>1. /\ SettleTurn /\ Hangup
        /\ UNCHANGED <<bootstrap, active, turns, load, chats, serverVars, faults>>
    BY <1>8 DEF StreamEnds, StreamFails, StreamAborted
  <2> QED
    BY ZenonT(30), <1>1, <1>3, <1>4, <1>5, <1>6, <2>1 DEF TypeOK, serverVars
<1>9. CASE ChatNotFound
  <2>1. /\ cache' = [cache EXCEPT ![submission.chat] = NoData]
        /\ load' = [load EXCEPT ![submission.chat] = NoLoad]
        /\ state' = Idle /\ active' \in {NoChat, active} /\ EndSubmission /\ Hangup
        /\ UNCHANGED <<bootstrap, turns, chats, serverVars, faults>>
    BY <1>9 DEF ChatNotFound
  <2>2. /\ cache' \in [Chat -> [loaded : BOOLEAN, stale : BOOLEAN, rows : SUBSET Row]]
        /\ load' \in [Chat -> [phase : {"none", "requested", "read"}, rows : SUBSET Row]]
    BY <1>1, <1>3, <2>1 DEF TypeOK
  <2>3. /\ state' \in [status : {"idle", "pending", "started"}, chat : Chat \cup {NoChat},
                       message : Turn \cup {NoTurn}, buffer : 0 .. MaxDeltas]
        /\ active' \in Chat \cup {NoChat}
    BY <1>1, <1>3, <2>1 DEF TypeOK
  <2> QED
    BY ZenonT(30), <1>1, <1>4, <1>5, <2>1, <2>2, <2>3 DEF TypeOK, serverVars
<1> QED
  BY <1>7, <1>8, <1>9 DEF ReadStream


LEMMA TypeStep ==
  ASSUME TurnInvariant, [Next]_vars
  PROVE  TypeOK'
<1>1. TypeOK /\ SubmissionOwnsTurn /\ EventsInOrder
  BY DEF TurnInvariant, PanelInvariant
<1>2. ASSUME NEW c \in Chat, NEW route \in Chat \cup {NoChat}, turns < MaxTurns,
             BeginTurn(c, route),
             turnLock' \in BOOLEAN, createdChat' \in BOOLEAN, active' \in Chat \cup {NoChat},
             chats' \in [Chat -> {"none", "exists", "deleted"}], faults' = faults
      PROVE  TypeOK'
  <2>1. UNCHANGED <<aborted, load, messages, wire>>
    BY <1>2 DEF BeginTurn
  <2> QED
    BY SMTT(30), <1>1, <1>2, <2>1, TypeBeginTurn DEF TypeOK, MessageData
<1>3. CASE SubmitToChat
  <2>1. active \in Chat
    BY <1>1, <1>3 DEF SubmitToChat, TypeOK
  <2> QED
    BY <1>1, <1>2, <1>3, <2>1 DEF SubmitToChat, CanSubmit, TypeOK
<1>4. CASE SubmitFromWelcome
  <2>1. submission' \in [phase : {"none", "creating", "reading"},
                         chat : Chat \cup {NoChat}, route : Chat \cup {NoChat}]
    BY <1>4 DEF SubmitFromWelcome, NoSubmission
  <2> QED
    BY <1>1, <1>4, <2>1
       DEF SubmitFromWelcome, cacheVars, serverVars, netVars, TypeOK
<1>5. CASE ChatCreated
  <2>1. PICK c \in Chat : /\ chats' = [chats EXCEPT ![c] = "exists"]
                          /\ active' = c
                          /\ BeginTurn(c, NoChat)
    BY <1>5 DEF ChatCreated
  <2>2. turns < MaxTurns /\ UNCHANGED <<turnLock, createdChat, faults>>
    BY <1>1, <1>5 DEF ChatCreated, SubmissionOwnsTurn
  <2> QED
    BY <1>1, <1>2, <2>1, <2>2 DEF TypeOK
<1>6. CASE CreateChatFails
  <2>1. /\ createdChat' \in BOOLEAN /\ turnLock' \in BOOLEAN
        /\ submission' \in [phase : {"none", "creating", "reading"},
                            chat : Chat \cup {NoChat}, route : Chat \cup {NoChat}]
        /\ controller' \in Turn \cup {NoTurn} /\ aborted' \in BOOLEAN
    BY <1>1, <1>6 DEF CreateChatFails, EndSubmission, NoSubmission, TypeOK, NoTurn
  <2> QED
    BY <1>1, <1>6, <2>1, TypeFault
       DEF CreateChatFails, cacheVars, serverVars, netVars, TypeOK
<1>7. CASE ReadStream
  BY <1>7, TypeReadStream
<1>8. CASE Stop
  BY <1>1, <1>8 DEF Stop, AbortController, cacheVars, serverVars, netVars, TypeOK
<1>9. CASE StartNewChat
  <2>1. Idle \in [status : {"idle", "pending", "started"}, chat : Chat \cup {NoChat},
                  message : Turn \cup {NoTurn}, buffer : 0 .. MaxDeltas]
    BY ChatAssumption DEF Idle
  <2> QED
    BY <1>1, <1>9, <2>1
       DEF StartNewChat, AbortController, cacheVars, serverVars, netVars, TypeOK
<1>10. ASSUME NEW c \in Chat, OpenChat(c) PROVE TypeOK'
  <2>1. load' \in [Chat -> [phase : {"none", "requested", "read"}, rows : SUBSET Row]]
    <3>1. load \in [Chat -> [phase : {"none", "requested", "read"}, rows : SUBSET Row]]
      BY <1>1 DEF TypeOK
    <3>2. load' = load \/ load' = [load EXCEPT ![c].phase = "requested"]
      BY <1>10, Zenon DEF OpenChat
    <3> QED
      BY <3>1, <3>2
  <2>2. /\ active' = c
        /\ UNCHANGED <<state, bootstrap, turnLock, createdChat, controller, aborted,
                       submission, turns, cache, chats, serverVars, netVars, faults>>
    BY <1>10 DEF OpenChat
  <2> QED
    BY <1>1, <2>1, <2>2 DEF serverVars, netVars, TypeOK
<1>11. ASSUME NEW c \in Chat, ReadMessages(c) PROVE TypeOK'
  <2>1. load' \in [Chat -> [phase : {"none", "requested", "read"}, rows : SUBSET Row]]
    BY <1>1, <1>11 DEF ReadMessages, NoLoad, TypeOK
  <2> QED
    BY <1>1, <1>11, <2>1 DEF ReadMessages, panelVars, serverVars, netVars, TypeOK
<1>12. ASSUME NEW c \in Chat, LoadMessages(c) PROVE TypeOK'
  <2>1. load' \in [Chat -> [phase : {"none", "requested", "read"}, rows : SUBSET Row]]
    BY <1>1, <1>12 DEF LoadMessages, NoLoad, TypeOK
  <2>2. cache' \in [Chat -> [loaded : BOOLEAN, stale : BOOLEAN, rows : SUBSET Row]]
    BY <1>1, <1>12 DEF LoadMessages, Data, TypeOK
  <2> QED
    BY <1>1, <1>12, <2>1, <2>2 DEF LoadMessages, panelVars, serverVars, netVars, TypeOK
<1>13. ASSUME NEW c \in Chat, DeleteChat(c) PROVE TypeOK'
  <2>1. /\ messages' = [messages EXCEPT ![c] = {}]
        /\ chats' = [chats EXCEPT ![c] = "deleted"]
        /\ faults' \in 0..FaultLimit
        /\ UNCHANGED <<panelVars, cacheVars, server, netVars>>
    BY <1>1, <1>13, TypeFault DEF DeleteChat
  <2>2. messages' \in [Chat -> SUBSET Row]
    BY <1>1, <2>1 DEF TypeOK
  <2>3. chats' \in [Chat -> {"none", "exists", "deleted"}]
    BY <1>1, <2>1 DEF TypeOK
  <2> QED
    BY <1>1, <2>1, <2>2, <2>3 DEF panelVars, cacheVars, netVars, TypeOK
<1>14. ASSUME NEW t \in Turn, Serve(t) \/ LoseConnection(t) PROVE TypeOK'
  <2>1. server[t].phase # "none" => server[t].chat \in Chat
    BY <1>1 DEF EventsInOrder, TypeOK, Turn
  <2> QED
    BY <1>1, <1>14, <2>1, TypeServe
<1>15. CASE UNCHANGED vars
  BY <1>1, <1>15 DEF vars, panelVars, cacheVars, serverVars, netVars, TypeOK
<1> QED
  BY <1>3, <1>4, <1>5, <1>6, <1>7, <1>8, <1>9, <1>10, <1>11, <1>12, <1>13, <1>14, <1>15
     DEF Next, CreateChat

-----------------------------------------------------------------------------
(***************************************************************************)
(* The panel's control: the submission, the lock and the controller.       *)
(***************************************************************************)
LEMMA Served ==
  ASSUME TurnInvariant, NEW t \in Turn, Serve(t) \/ LoseConnection(t)
  PROVE  /\ UNCHANGED <<panelVars, cacheVars, chats>>
         /\ t <= turns /\ server[t].phase # "none" /\ server'[t].phase # "none"
         /\ server'[t].chat = server[t].chat
         /\ server'[t].sent = server[t].sent \/ StreamDelta(t)
         /\ \A u \in Turn \ {t} : server'[u] = server[u] /\ connection'[u] = connection[u]
<1>1. TypeOK /\ EventsInOrder
  BY DEF TurnInvariant, PanelInvariant
<1>2. server[t].phase # "none" /\ t <= turns
  <2>1. connection[t] = "open" => ~(t > turns)
    BY <1>1 DEF EventsInOrder
  <2>2. Serve(t) => server[t].phase # "none"
    BY DEF Serve, ReceiveMessage, RejectMessage, FailBeforeAnswer, StreamDelta, StoreAnswer,
       FailTurn, CompleteTurn
  <2>3. LoseConnection(t) => connection[t] = "open"
    BY DEF LoseConnection
  <2>4. t > turns <=> server[t].phase = "none"
    BY <1>1 DEF EventsInOrder
  <2>5. turns \in Nat /\ t \in Nat
    BY <1>1, ChatAssumption DEF TypeOK, Turn
  <2> QED
    BY <2>1, <2>2, <2>3, <2>4, <2>5
<1>3. \A p \in STRING : LET new == [server EXCEPT ![t].phase = p]
                        IN /\ new[t].phase = p /\ new[t].chat = server[t].chat
                           /\ new[t].sent = server[t].sent
                           /\ \A u \in Turn \ {t} : new[u] = server[u]
  BY <1>1 DEF TypeOK
<1>4. Close(t) => \A u \in Turn \ {t} : connection'[u] = connection[u]
  BY <1>1 DEF Close, TypeOK
<1>5. CASE StreamDelta(t)
  BY <1>1, <1>2, <1>5 DEF StreamDelta, TypeOK
<1>6. CASE LoseConnection(t)
  BY <1>1, <1>2, <1>6 DEF LoseConnection, serverVars, TypeOK
<1>7. CASE ReceiveMessage(t)
  BY <1>2, <1>3, <1>7 DEF ReceiveMessage
<1>8. CASE RejectMessage(t)
  BY <1>1, <1>2, <1>3, <1>8 DEF RejectMessage, TypeOK
<1>9. CASE FailBeforeAnswer(t)
  BY <1>2, <1>3, <1>4, <1>9 DEF FailBeforeAnswer
<1>10. CASE StoreAnswer(t)
  BY <1>2, <1>3, <1>10 DEF StoreAnswer, netVars
<1>11. CASE FailTurn(t)
  BY <1>2, <1>3, <1>4, <1>11 DEF FailTurn
<1>12. CASE CompleteTurn(t)
  BY <1>2, <1>3, <1>4, <1>12 DEF CompleteTurn
<1> QED
  BY <1>5, <1>6, <1>7, <1>8, <1>9, <1>10, <1>11, <1>12 DEF Serve


LEMMA ControlAfterEnd ==
  ASSUME TurnInvariant, submission.phase # "none", EndSubmission, state'.status = "idle",
         turns' = turns
  PROVE  BusyPanelCanStop' /\ SubmissionOwnsTurn'
<1>1. controller' = NoTurn
  <2>1. controller = turns \/ controller = NoTurn
    BY DEF TurnInvariant, SubmissionOwnsTurn
  <2> QED
    BY <2>1 DEF EndSubmission
<1>2. submission' = NoSubmission /\ turnLock' = FALSE /\ createdChat' = FALSE
  BY DEF EndSubmission
<1> QED
  BY <1>1, <1>2
     DEF BusyPanelCanStop, SubmissionOwnsTurn, IsStreamingBusy, Reading, NoSubmission

LEMMA ControlAfterBegin ==
  ASSUME TurnInvariant, NEW c \in Chat, NEW route, BeginTurn(c, route), turnLock',
         turns < MaxTurns
  PROVE  BusyPanelCanStop' /\ SubmissionOwnsTurn'
<1>1. turns \in Nat /\ turns + 1 \in Turn
  BY ChatAssumption DEF TurnInvariant, PanelInvariant, TypeOK, Turn
<1>2. server'[turns + 1].chat = c
  BY <1>1 DEF BeginTurn, TurnInvariant, PanelInvariant, TypeOK
<1>3. /\ turns' = turns + 1 /\ controller' = turns + 1
      /\ submission' = [phase |-> "reading", chat |-> c, route |-> route]
      /\ state' = Pending(c)
  BY DEF BeginTurn
<1>4. Pending(c).status = "pending" /\ Pending(c).chat = c
  BY DEF Pending, Idle
<1>5. turns + 1 # NoTurn
  BY <1>1 DEF NoTurn
<1> QED
  BY <1>2, <1>3, <1>4, <1>5
     DEF BusyPanelCanStop, SubmissionOwnsTurn, IsStreamingBusy, Reading

LEMMA ControlStep ==
  ASSUME TurnInvariant, [Next]_vars
  PROVE  BusyPanelCanStop' /\ SubmissionOwnsTurn'
<1>1. TypeOK /\ SubmissionOwnsTurn /\ BusyPanelCanStop /\ EventsInOrder
  BY DEF TurnInvariant, PanelInvariant
<1>2. Idle.status = "idle"
  BY DEF Idle
<1>3. ASSUME UNCHANGED <<turnLock, createdChat, controller, submission, turns>>,
             \/ state'.status = "idle"
             \/ /\ state.status # "idle" /\ state'.chat = state.chat
                /\ state'.status = "started" => state'.message = turns,
             Reading => server'[turns].chat = server[turns].chat
      PROVE  BusyPanelCanStop' /\ SubmissionOwnsTurn'
  BY <1>1, <1>3 DEF BusyPanelCanStop, SubmissionOwnsTurn, IsStreamingBusy, Reading
<1>4. ASSUME UNCHANGED <<turnLock, createdChat, controller, submission, turns, state>>,
             Reading => server'[turns].chat = server[turns].chat
      PROVE  BusyPanelCanStop' /\ SubmissionOwnsTurn'
  BY <1>1, <1>4 DEF BusyPanelCanStop, SubmissionOwnsTurn, IsStreamingBusy, Reading
<1>5. CASE SubmitToChat
  <2>1. active \in Chat
    BY <1>1, <1>5 DEF SubmitToChat, TypeOK
  <2> QED
    BY <1>5, <2>1, ControlAfterBegin DEF SubmitToChat, CanSubmit
<1>6. CASE SubmitFromWelcome
  <2>1. /\ ~turnLock /\ turns < MaxTurns /\ state' = state /\ state.status = "idle"
        /\ turns' = turns /\ controller' = controller /\ turnLock' = TRUE
        /\ submission'.phase = "creating"
    BY <1>6 DEF SubmitFromWelcome, CanSubmit, IsStreamingBusy, NoSubmission
  <2>2. controller = NoTurn
    BY <1>1, <2>1 DEF BusyPanelCanStop
  <2> QED
    BY <2>1, <2>2 DEF BusyPanelCanStop, SubmissionOwnsTurn, IsStreamingBusy, Reading
<1>7. CASE ChatCreated
  BY <1>1, <1>7, ControlAfterBegin DEF ChatCreated, SubmissionOwnsTurn
<1>8. CASE CreateChatFails
  <2>1. state.status = "idle"
    BY <1>1, <1>8 DEF CreateChatFails, BusyPanelCanStop, IsStreamingBusy, Reading
  <2> QED
    BY <1>8, <2>1, ControlAfterEnd DEF CreateChatFails
<1>9. CASE ProcessStreamBatch
  <2>1. PICK batch \in Seq(Event), text \in 0..MaxDeltas : BatchEffect(batch, text)
    BY <1>9, ReadBatch
  <2>2. /\ state' \in ReducerState
        /\ state'.status # "idle" => state.status # "idle" /\ state'.chat = state.chat
        /\ state'.status = "started" =>
             state'.message = IF state.status = "started" THEN state.message ELSE turns
    BY <2>1 DEF BatchEffect
  <2>3. state.status = "started" => state.message = turns
    BY <1>1 DEF BusyPanelCanStop, IsStreamingBusy
  <2>4. /\ UNCHANGED <<turnLock, controller, submission, turns, server>>
        /\ createdChat' => createdChat
        /\ turnLock
    BY <1>9, ReadingTurn DEF ProcessStreamBatch, serverVars
  <2> QED
    BY <1>1, <2>2, <2>3, <2>4 DEF BusyPanelCanStop, SubmissionOwnsTurn, IsStreamingBusy, Reading
<1>10. CASE StreamEnds \/ StreamFails \/ ChatNotFound \/ StreamAborted
  <2>1. Reading /\ EndSubmission /\ state' = Idle /\ turns' = turns
    BY <1>10 DEF StreamEnds, StreamFails, ChatNotFound, StreamAborted, SettleTurn
  <2> QED
    BY <1>2, <2>1, ControlAfterEnd DEF Reading
<1>11. CASE Stop
  BY <1>4, <1>11 DEF Stop, serverVars
<1>12. CASE StartNewChat
  BY <1>2, <1>3, <1>12 DEF StartNewChat, serverVars
<1>13. ASSUME NEW c \in Chat,
              OpenChat(c) \/ ReadMessages(c) \/ LoadMessages(c) \/ DeleteChat(c)
       PROVE  BusyPanelCanStop' /\ SubmissionOwnsTurn'
  <2>1. UNCHANGED <<turnLock, createdChat, controller, submission, turns, state, server>>
    BY <1>13 DEF OpenChat, ReadMessages, LoadMessages, DeleteChat, panelVars, serverVars
  <2> QED
    BY <1>4, <2>1
<1>14. ASSUME NEW t \in Turn, Serve(t) \/ LoseConnection(t)
       PROVE  BusyPanelCanStop' /\ SubmissionOwnsTurn'
  <2>1. UNCHANGED <<turnLock, createdChat, controller, submission, turns, state>>
    BY <1>14, Served DEF panelVars
  <2>2. Reading => server'[turns].chat = server[turns].chat
    <3>1. Reading => turns \in Turn
      BY ReadingTurn
    <3>2. \A u \in Turn : server'[u].chat = server[u].chat
      BY <1>14, Served
    <3> QED
      BY <3>1, <3>2
  <2> QED
    BY <1>4, <2>1, <2>2
<1>15. CASE UNCHANGED vars
  BY <1>4, <1>15 DEF vars, panelVars, serverVars
<1> QED
  BY <1>5, <1>6, <1>7, <1>8, <1>9, <1>10, <1>11, <1>12, <1>13, <1>14, <1>15
     DEF Next, CreateChat, ReadStream


-----------------------------------------------------------------------------
(***************************************************************************)
(* The order of events.                                                    *)
(***************************************************************************)
TurnOrder(t) ==
  /\ t > turns <=> server[t].phase = "none"
  /\ t > turns => server[t].sent = 0 /\ connection[t] = "none"
  /\ t <= turns => server[t].chat \in Chat
  /\ server[t].phase \in {"none", "requested"} => wire[t] = << >>
  /\ connection[t] = "notFound" => wire[t] = << >> /\ server[t].phase = "ended"
  /\ server[t].phase = "ended" \/ Quiet(wire[t], Len(wire[t]))
  /\ InOrder(wire[t])

LEMMA OrderOfTurns ==
  ASSUME TypeOK
  PROVE  EventsInOrder <=> \A t \in Turn : TurnOrder(t)
<1>1. \A t \in Turn : DOMAIN wire[t] = 1..Len(wire[t])
  BY WireTypes
<1> QED
  BY <1>1 DEF EventsInOrder, TurnOrder, Quiet, InOrder

LEMMA NextOrderOfTurns ==
  ASSUME TypeOK'
  PROVE  EventsInOrder' <=> \A t \in Turn : TurnOrder(t)'
<1>1. \A t \in Turn : DOMAIN (wire'[t]) = 1..Len(wire'[t])
  BY DEF TypeOK
<1> QED
  BY <1>1 DEF EventsInOrder, TurnOrder, Quiet, InOrder

LEMMA NoEventsInOrder == Quiet(<< >>, Len(<< >>)) /\ InOrder(<< >>)
<1>1. 1..Len(<< >>) = {}
  OBVIOUS
<1> QED
  BY <1>1 DEF Quiet, InOrder

LEMMA EventsOfSteps ==
  /\ \A e \in {"start", "delta"} : Quiet(<<e>>, Len(<<e>>)) /\ InOrder(<<e>>)
  /\ \A e \in TerminalEvent : InOrder(<<e>>)
  /\ InOrder(<<"completed", "done">>)
<1>1. \A e : Len(<<e>>) = 1 /\ <<e>>[1] = e
  OBVIOUS
<1>2. \A e : InOrder(<<e>>)
  BY <1>1 DEF InOrder
<1>3. \A e \in {"start", "delta"} : Quiet(<<e>>, Len(<<e>>))
  BY <1>1 DEF Quiet, TerminalEvent
<1>4. InOrder(<<"completed", "done">>)
  BY DEF InOrder
<1> QED
  BY <1>2, <1>3, <1>4

LEMMA AppendedInOrder ==
  ASSUME NEW w \in Seq(Event), NEW u \in Seq(Event), Quiet(w, Len(w)), InOrder(u)
  PROVE  /\ InOrder(w \o u)
         /\ Quiet(u, Len(u)) => Quiet(w \o u, Len(w \o u))
<1>1. /\ Len(w) \in Nat /\ Len(u) \in Nat
      /\ Len(w \o u) = Len(w) + Len(u)
      /\ \A i \in 1 .. Len(w) + Len(u) :
           (w \o u)[i] = IF i <= Len(w) THEN w[i] ELSE u[i - Len(w)]
  BY ConcatProperties
<1>2. ASSUME NEW i \in 1 .. Len(w) + Len(u), (w \o u)[i] \in TerminalEvent
      PROVE  i > Len(w) /\ i - Len(w) \in 1..Len(u) /\ u[i - Len(w)] \in TerminalEvent
  <2>1. ~(i <= Len(w))
    <3>1. ASSUME i <= Len(w) PROVE FALSE
      <4>1. i \in 1..Len(w) /\ w[i] \in TerminalEvent
        BY <1>1, <1>2, <3>1
      <4> QED
        BY <4>1 DEF Quiet
    <3> QED
      BY <3>1
  <2> QED
    BY <1>1, <1>2, <2>1
<1>3. InOrder(w \o u)
  <2>1. ASSUME NEW i \in 1 .. Len(w) + Len(u), NEW j \in 1 .. Len(w) + Len(u),
               (w \o u)[i] \in TerminalEvent
        PROVE  /\ j > i => (w \o u)[j] # "delta"
               /\ (w \o u)[j] = "error" => j = i
    <3>1. i > Len(w) /\ i - Len(w) \in 1..Len(u) /\ u[i - Len(w)] \in TerminalEvent
      BY <1>2, <2>1
    <3>2. CASE j > Len(w)
      <4>1. j - Len(w) \in 1..Len(u) /\ (w \o u)[j] = u[j - Len(w)]
        BY <1>1, <3>2
      <4>2. /\ j - Len(w) > i - Len(w) => u[j - Len(w)] # "delta"
            /\ u[j - Len(w)] = "error" => j - Len(w) = i - Len(w)
        BY <3>1, <4>1 DEF InOrder
      <4> QED
        BY <1>1, <3>1, <4>1, <4>2
    <3>3. CASE j <= Len(w)
      <4>1. (w \o u)[j] \notin TerminalEvent
        BY <1>1, <1>2, <3>3
      <4> QED
        BY <1>1, <3>1, <3>3, <4>1 DEF TerminalEvent
    <3> QED
      BY <1>1, <3>2, <3>3
  <2> QED
    BY <1>1, <2>1 DEF InOrder
<1>4. Quiet(u, Len(u)) => Quiet(w \o u, Len(w \o u))
  BY <1>1, <1>2 DEF Quiet
<1> QED
  BY <1>3, <1>4


LEMMA OrderAfterServe ==
  ASSUME TurnInvariant, TypeOK', NEW t \in Turn, Serve(t) \/ LoseConnection(t)
  PROVE  TurnOrder(t)'
<1>1. TypeOK /\ TurnOrder(t)
  BY OrderOfTurns DEF TurnInvariant, PanelInvariant
<1>2. /\ t <= turns /\ turns' = turns /\ turns \in Nat /\ t \in Nat
      /\ server'[t].chat = server[t].chat
      /\ server'[t].phase # "none" /\ server[t].phase # "none"
  BY <1>1, Served, ChatAssumption DEF panelVars, TypeOK, Turn
<1>3. /\ wire[t] \in Seq(Event) /\ Len(wire[t]) \in Nat
      /\ wire[t] = << >> => Quiet(wire[t], Len(wire[t]))
  BY <1>1, WireTypes, NoEventsInOrder
<1>4. ASSUME NEW events \in Seq(Event), Emit(t, events), InOrder(events),
             server[t].phase # "ended"
      PROVE  /\ InOrder(wire'[t])
             /\ Quiet(events, Len(events)) => Quiet(wire'[t], Len(wire'[t]))
             /\ connection[t] # "open" => wire'[t] = wire[t]
  <2>1. Quiet(wire[t], Len(wire[t])) /\ InOrder(wire[t])
    BY <1>1, <1>4 DEF TurnOrder
  <2>2. wire'[t] = IF connection[t] = "open" THEN wire[t] \o events ELSE wire[t]
    BY <1>1, <1>4, Emitted
  <2> QED
    BY <1>3, <1>4, <2>1, <2>2, AppendedInOrder
<1>5. /\ server' = [server EXCEPT ![t].phase = "asking"] => server'[t].phase = "asking"
      /\ server' = [server EXCEPT ![t].phase = "stored"] => server'[t].phase = "stored"
      /\ server' = [server EXCEPT ![t].phase = "ended"] => server'[t].phase = "ended"
  <2>1. server \in [Turn -> [phase : {"none", "requested", "asking", "stored", "ended"},
                            chat : Chat \cup {NoChat}, sent : 0 .. MaxDeltas]]
    BY <1>1 DEF TypeOK
  <2> QED
    BY <2>1
<1>6. Close(t) => (connection'[t] = "notFound" => connection[t] = "notFound")
  BY <1>1 DEF Close, TypeOK
<1>7. CASE ReceiveMessage(t)
  <2>1. /\ Emit(t, <<"start">>) /\ server[t].phase = "requested"
        /\ server'[t].phase = "asking" /\ connection' = connection
    BY <1>5, <1>7 DEF ReceiveMessage
  <2>2. InOrder(wire'[t]) /\ Quiet(wire'[t], Len(wire'[t]))
    BY <1>4, <2>1, EventSequences, EventsOfSteps
  <2>3. connection[t] # "notFound"
    BY <1>1, <2>1 DEF TurnOrder
  <2> QED
    BY <1>1, <1>2, <2>1, <2>2, <2>3 DEF TurnOrder
<1>8. CASE RejectMessage(t)
  <2>1. /\ server[t].phase = "requested" /\ server'[t].phase = "ended" /\ wire' = wire
    BY <1>5, <1>8 DEF RejectMessage
  <2> QED
    BY <1>1, <1>2, <2>1 DEF TurnOrder
<1>9. CASE FailBeforeAnswer(t)
  <2>1. /\ Emit(t, <<"error">>) /\ server[t].phase = "requested"
        /\ server'[t].phase = "ended" /\ Close(t)
    BY <1>5, <1>9 DEF FailBeforeAnswer
  <2>2. InOrder(wire'[t])
    BY <1>4, <2>1, EventSequences, EventsOfSteps DEF TerminalEvent
  <2>3. connection'[t] # "notFound"
    BY <1>1, <1>6, <2>1 DEF TurnOrder
  <2> QED
    BY <1>1, <1>2, <2>1, <2>2, <2>3 DEF TurnOrder
<1>10. CASE StreamDelta(t)
  <2>1. /\ Emit(t, <<"delta">>) /\ server[t].phase = "asking"
        /\ server'[t].phase = server[t].phase /\ connection' = connection
        /\ connection[t] = "open"
    BY <1>1, <1>10 DEF StreamDelta, TypeOK
  <2>2. InOrder(wire'[t]) /\ Quiet(wire'[t], Len(wire'[t]))
    BY <1>4, <2>1, EventSequences, EventsOfSteps
  <2> QED
    BY <1>1, <1>2, <2>1, <2>2 DEF TurnOrder
<1>11. CASE StoreAnswer(t)
  <2>1. /\ server[t].phase = "asking" /\ server'[t].phase = "stored"
        /\ wire' = wire /\ connection' = connection
    BY <1>5, <1>11 DEF StoreAnswer, netVars
  <2> QED
    BY <1>1, <1>2, <2>1 DEF TurnOrder
<1>12. CASE FailTurn(t)
  <2>1. /\ Emit(t, <<"error">>) /\ server[t].phase \in {"asking", "stored"}
        /\ server'[t].phase = "ended" /\ Close(t)
    BY <1>5, <1>12 DEF FailTurn
  <2>2. InOrder(wire'[t])
    BY <1>4, <2>1, EventSequences, EventsOfSteps DEF TerminalEvent
  <2>3. connection'[t] # "notFound"
    BY <1>1, <1>6, <2>1 DEF TurnOrder
  <2> QED
    BY <1>1, <1>2, <2>1, <2>2, <2>3 DEF TurnOrder
<1>13. CASE CompleteTurn(t)
  <2>1. PICK events \in {<< >>, <<"completed">>, <<"done">>, <<"completed", "done">>} :
          Emit(t, events)
    BY <1>13 DEF CompleteTurn
  <2>2. /\ server[t].phase = "stored" /\ server'[t].phase = "ended" /\ Close(t)
    BY <1>5, <1>13 DEF CompleteTurn
  <2>3. events \in Seq(Event) /\ InOrder(events)
    BY EventSequences, EventsOfSteps, NoEventsInOrder DEF TerminalEvent
  <2>4. InOrder(wire'[t])
    BY <1>4, <2>1, <2>2, <2>3
  <2>5. connection'[t] # "notFound"
    BY <1>1, <1>6, <2>2 DEF TurnOrder
  <2> QED
    BY <1>1, <1>2, <2>2, <2>4, <2>5 DEF TurnOrder
<1>14. CASE LoseConnection(t)
  <2>1. wire' = wire /\ server' = server /\ connection'[t] # "notFound"
    BY <1>1, <1>14 DEF LoseConnection, serverVars, TypeOK
  <2> QED
    BY <1>1, <1>2, <2>1 DEF TurnOrder
<1> QED
  BY <1>7, <1>8, <1>9, <1>10, <1>11, <1>12, <1>13, <1>14 DEF Serve

LEMMA OrderStep ==
  ASSUME TurnInvariant, TypeOK', [Next]_vars
  PROVE  EventsInOrder'
<1>1. TypeOK /\ \A t \in Turn : TurnOrder(t)
  BY OrderOfTurns DEF TurnInvariant, PanelInvariant
<1>2. turns \in Nat /\ \A t \in Turn : t \in Nat
  BY <1>1, ChatAssumption DEF TypeOK, Turn
<1>3. SUFFICES ASSUME NEW t \in Turn PROVE TurnOrder(t)'
  BY NextOrderOfTurns
<1>4. ASSUME UNCHANGED <<turns, server, wire, connection>> PROVE TurnOrder(t)'
  BY <1>1, <1>4 DEF TurnOrder
<1>5. ASSUME turns' = turns, server' = server,
             wire'[t] = wire[t] /\ connection'[t] = connection[t]
      PROVE  TurnOrder(t)'
  BY <1>1, <1>5 DEF TurnOrder
<1>6. ASSUME NEW c \in Chat, NEW route, BeginTurn(c, route), turns < MaxTurns
      PROVE  TurnOrder(t)'
  <2>1. /\ turns' = turns + 1 /\ wire' = wire
        /\ server' = [server EXCEPT ![turns + 1] =
                        [phase |-> "requested", chat |-> c, sent |-> 0]]
        /\ connection' = [connection EXCEPT ![turns + 1] = "open"]
    BY <1>6 DEF BeginTurn
  <2>2. CASE t = turns + 1
    <3>1. wire[t] = << >> /\ ~(t > turns')
      BY <1>1, <1>2, <2>1, <2>2 DEF TurnOrder
    <3>2. /\ server'[t] = [phase |-> "requested", chat |-> c, sent |-> 0]
          /\ connection'[t] = "open"
      BY <1>1, <2>1, <2>2 DEF TypeOK
    <3> QED
      BY <2>1, <3>1, <3>2, NoEventsInOrder DEF TurnOrder
  <2>3. CASE t # turns + 1
    <3>1. server'[t] = server[t] /\ connection'[t] = connection[t]
      BY <1>1, <2>1, <2>3 DEF TypeOK
    <3>2. (t > turns' <=> t > turns) /\ (t <= turns' <=> t <= turns)
      BY <1>2, <2>1, <2>3
    <3> QED
      BY <1>1, <2>1, <3>1, <3>2 DEF TurnOrder
  <2> QED
    BY <2>2, <2>3
<1>7. CASE SubmitToChat
  <2>1. active \in Chat
    BY <1>1, <1>7 DEF SubmitToChat, TypeOK
  <2> QED
    BY <1>6, <1>7, <2>1 DEF SubmitToChat, CanSubmit
<1>8. CASE ChatCreated
  BY <1>6, <1>8 DEF ChatCreated, TurnInvariant, SubmissionOwnsTurn
<1>9. CASE SubmitFromWelcome \/ CreateChatFails \/ Stop \/ StartNewChat
  BY <1>4, <1>9 DEF SubmitFromWelcome, CreateChatFails, Stop, StartNewChat, serverVars, netVars
<1>10. CASE ProcessStreamBatch
  <2>1. PICK batch \in Seq(Event), text \in 0..MaxDeltas : BatchEffect(batch, text)
    BY <1>10, ReadBatch
  <2>2. UNCHANGED <<turns, server, connection>>
    BY <1>10 DEF ProcessStreamBatch, serverVars
  <2>3. CASE t # turns
    BY <1>5, <2>1, <2>2, <2>3 DEF BatchEffect
  <2>4. CASE t = turns
    <3>1. /\ Len(batch) \in 1..Len(wire[t])
          /\ Len(wire'[t]) = Len(wire[t]) - Len(batch)
          /\ \A i \in 1..Len(wire'[t]) : wire'[t][i] = wire[t][Len(batch) + i]
      BY <2>1, <2>4 DEF BatchEffect
    <3>2. Len(wire[t]) \in Nat /\ (wire[t] = << >> => Len(wire[t]) = 0)
      BY <1>1, WireTypes
    <3>3. wire[t] # << >>
      BY <3>1, <3>2
    <3>4. \A i \in 1..Len(wire'[t]) : Len(batch) + i \in 1..Len(wire[t])
      BY <3>1, <3>2
    <3>5. Quiet(wire[t], Len(wire[t])) => Quiet(wire'[t], Len(wire'[t]))
      BY <3>1, <3>4 DEF Quiet
    <3>6. InOrder(wire'[t])
      <4>1. ASSUME NEW i \in 1..Len(wire'[t]), NEW j \in 1..Len(wire'[t]),
                   wire'[t][i] \in TerminalEvent
            PROVE  /\ j > i => wire'[t][j] # "delta"
                   /\ wire'[t][j] = "error" => j = i
        <5>1. /\ wire'[t][i] = wire[t][Len(batch) + i] /\ Len(batch) + i \in 1..Len(wire[t])
              /\ wire'[t][j] = wire[t][Len(batch) + j] /\ Len(batch) + j \in 1..Len(wire[t])
          BY <3>1, <3>4
        <5>2. InOrder(wire[t])
          BY <1>1 DEF TurnOrder
        <5>3. /\ Len(batch) + j > Len(batch) + i => wire'[t][j] # "delta"
              /\ wire'[t][j] = "error" => Len(batch) + j = Len(batch) + i
          BY <4>1, <5>1, <5>2 DEF InOrder
        <5> QED
          BY <3>1, <3>2, <5>3
      <4> QED
        BY <4>1 DEF InOrder
    <3> QED
      BY <1>1, <2>2, <3>3, <3>5, <3>6 DEF TurnOrder
  <2> QED
    BY <2>3, <2>4
<1>11. CASE StreamEnds \/ StreamFails \/ ChatNotFound \/ StreamAborted
  <2>1. /\ wire' = [wire EXCEPT ![turns] = << >>]
        /\ connection' = [connection EXCEPT ![turns] = "left"]
        /\ UNCHANGED <<turns, server>> /\ Reading
    BY <1>11 DEF StreamEnds, StreamFails, ChatNotFound, StreamAborted, Hangup, serverVars
  <2>2. CASE t = turns
    <3>1. wire'[t] = << >> /\ connection'[t] = "left"
      BY <1>1, <2>1, <2>2 DEF TypeOK
    <3>2. ~(t > turns) /\ turns' = turns /\ server' = server
      BY <1>2, <2>1, <2>2
    <3> QED
      BY <1>1, <3>1, <3>2, NoEventsInOrder DEF TurnOrder
  <2>3. CASE t # turns
    BY <1>1, <1>5, <2>1, <2>3 DEF TypeOK
  <2> QED
    BY <2>2, <2>3
<1>12. ASSUME NEW c \in Chat,
              OpenChat(c) \/ ReadMessages(c) \/ LoadMessages(c) \/ DeleteChat(c)
       PROVE  TurnOrder(t)'
  BY <1>4, <1>12
     DEF OpenChat, ReadMessages, LoadMessages, DeleteChat, panelVars, serverVars, netVars
<1>13. ASSUME NEW u \in Turn, Serve(u) \/ LoseConnection(u)
       PROVE  TurnOrder(t)'
  <2>1. CASE t = u
    BY <1>13, <2>1, OrderAfterServe
  <2>2. CASE t # u
    <3>1. turns' = turns /\ server'[t] = server[t] /\ connection'[t] = connection[t]
      BY <1>13, <2>2, Served DEF panelVars
    <3>2. wire'[t] = wire[t]
      <4>1. \A events : Emit(u, events) => wire'[t] = wire[t]
        BY <1>1, <2>2 DEF Emit, TypeOK
      <4> QED
        BY <1>13, <4>1
           DEF Serve, ReceiveMessage, RejectMessage, FailBeforeAnswer, StreamDelta, StoreAnswer,
               FailTurn, CompleteTurn, LoseConnection, netVars
    <3> QED
      BY <1>1, <3>1, <3>2 DEF TurnOrder
  <2> QED
    BY <2>1, <2>2
<1>14. CASE UNCHANGED vars
  BY <1>4, <1>14 DEF vars, panelVars, serverVars, netVars
<1> QED
  BY <1>7, <1>8, <1>9, <1>10, <1>11, <1>12, <1>13, <1>14 DEF Next, CreateChat, ReadStream


-----------------------------------------------------------------------------
(***************************************************************************)
(* Deltas that are sent, under way and shown.                              *)
(***************************************************************************)
LEMMA DeltasAfterServe ==
  ASSUME TurnInvariant, NEW t \in Turn, Serve(t) \/ LoseConnection(t)
  PROVE  /\ \E k \in Nat : /\ server'[t].sent = server[t].sent + k
                           /\ Deltas(wire'[t]) <= Deltas(wire[t]) + k
         /\ \A u \in Turn \ {t} : wire'[u] = wire[u]
         /\ server[t].phase # "requested" /\ connection[t] # "notFound" =>
              /\ server'[t].phase \notin {"none", "requested"}
              /\ connection'[t] # "notFound"
<1>1. TypeOK /\ wire[t] \in Seq(Event) /\ Deltas(wire[t]) \in Nat
      /\ server[t].sent \in Nat
  BY WireTypes DEF TurnInvariant, PanelInvariant
<1>2. ASSUME NEW events \in Seq(Event), Emit(t, events)
      PROVE  /\ Deltas(wire'[t]) <= Deltas(wire[t]) + Deltas(events)
             /\ \A u \in Turn \ {t} : wire'[u] = wire[u]
  <2>1. /\ \A u \in Turn \ {t} : wire'[u] = wire[u]
        /\ wire'[t] = wire[t] \o events \/ wire'[t] = wire[t]
    BY <1>1, <1>2, Emitted
  <2>2. Deltas(events) \in Nat
    BY DeltasType
  <2>3. Deltas(wire[t] \o events) = Deltas(wire[t]) + Deltas(events)
    BY <1>1, DeltasOfConcatenation
  <2>4. Deltas(wire[t]) <= Deltas(wire[t]) + Deltas(events)
    BY <1>1, <2>2
  <2>5. Deltas(wire[t]) + Deltas(events) <= Deltas(wire[t]) + Deltas(events)
    BY <1>1, <2>2
  <2> QED
    BY <2>1, <2>3, <2>4, <2>5
<1>3. /\ Deltas(<< >>) = 0 /\ Deltas(<<"start">>) = 0 /\ Deltas(<<"delta">>) = 1
      /\ Deltas(<<"error">>) = 0 /\ Deltas(<<"completed">>) = 0 /\ Deltas(<<"done">>) = 0
  BY NoEvents, DeltasOfOne DEF Event
<1>4. Deltas(<<"completed", "done">>) = 0
  <2>1. \A i \in 1..Len(<<"completed", "done">>) : <<"completed", "done">>[i] # "delta"
    OBVIOUS
  <2> QED
    BY <2>1, EventSequences, NoDeltas
<1>5. Close(t) => (connection'[t] = "notFound" => connection[t] = "notFound")
  BY <1>1 DEF Close, TypeOK
<1>6. server[t].phase # "none"
  BY Served
<1>7. \A u \in Turn \ {t} : wire' = wire => wire'[u] = wire[u]
  OBVIOUS
<1>8. SUFFICES
        /\ \E k \in Nat : /\ server'[t].sent = server[t].sent + k
                          /\ Deltas(wire'[t]) <= Deltas(wire[t]) + k
        /\ \A u \in Turn \ {t} : wire'[u] = wire[u]
        /\ server[t].phase # "requested" /\ connection[t] # "notFound" =>
             /\ server'[t].phase # "requested"
             /\ connection'[t] # "notFound"
  <2>1. server'[t].phase # "none"
    BY Served
  <2> QED
    BY <1>8, <2>1
<1>9. /\ 0 \in Nat /\ 1 \in Nat
      /\ server[t].sent + 0 = server[t].sent
      /\ Deltas(wire[t]) <= Deltas(wire[t]) + 0
  BY <1>1
<1>10. server'[t].sent = server[t].sent \/ StreamDelta(t)
  BY Served
<1>11. /\ server' = [server EXCEPT ![t].phase = "asking"] => server'[t].phase = "asking"
       /\ server' = [server EXCEPT ![t].phase = "stored"] => server'[t].phase = "stored"
       /\ server' = [server EXCEPT ![t].phase = "ended"] => server'[t].phase = "ended"
  <2>1. server \in [Turn -> [phase : {"none", "requested", "asking", "stored", "ended"},
                            chat : Chat \cup {NoChat}, sent : 0 .. MaxDeltas]]
    BY <1>1 DEF TypeOK
  <2> QED
    BY <2>1
<1>12. CASE StreamDelta(t)
  <2>1. /\ server'[t].sent = server[t].sent + 1 /\ Emit(t, <<"delta">>)
        /\ server'[t].phase = server[t].phase /\ connection' = connection
    BY <1>1, <1>12 DEF StreamDelta, TypeOK
  <2>2. /\ Deltas(wire'[t]) <= Deltas(wire[t]) + 1
        /\ \A u \in Turn \ {t} : wire'[u] = wire[u]
    BY <1>2, <1>3, <2>1, EventSequences
  <2> QED
    BY <1>9, <2>1, <2>2
<1>13. ASSUME NEW events \in Seq(Event), Emit(t, events), Deltas(events) = 0,
              ~StreamDelta(t),
              server[t].phase # "requested" /\ connection[t] # "notFound" =>
                /\ server'[t].phase # "requested"
                /\ connection'[t] # "notFound"
       PROVE  /\ \E k \in Nat : /\ server'[t].sent = server[t].sent + k
                                /\ Deltas(wire'[t]) <= Deltas(wire[t]) + k
              /\ \A u \in Turn \ {t} : wire'[u] = wire[u]
              /\ server[t].phase # "requested" /\ connection[t] # "notFound" =>
                   /\ server'[t].phase # "requested"
                   /\ connection'[t] # "notFound"
  BY <1>2, <1>9, <1>10, <1>13
<1>14. ASSUME wire' = wire, ~StreamDelta(t),
              server[t].phase # "requested" /\ connection[t] # "notFound" =>
                /\ server'[t].phase # "requested"
                /\ connection'[t] # "notFound"
       PROVE  /\ \E k \in Nat : /\ server'[t].sent = server[t].sent + k
                                /\ Deltas(wire'[t]) <= Deltas(wire[t]) + k
              /\ \A u \in Turn \ {t} : wire'[u] = wire[u]
              /\ server[t].phase # "requested" /\ connection[t] # "notFound" =>
                   /\ server'[t].phase # "requested"
                   /\ connection'[t] # "notFound"
  BY <1>9, <1>10, <1>14
<1>15. CASE ReceiveMessage(t) /\ ~StreamDelta(t)
  BY <1>3, <1>11, <1>13, <1>15, EventSequences DEF ReceiveMessage
<1>16. CASE RejectMessage(t) /\ ~StreamDelta(t)
  BY <1>11, <1>14, <1>16 DEF RejectMessage
<1>17. CASE FailBeforeAnswer(t) /\ ~StreamDelta(t)
  BY <1>3, <1>5, <1>11, <1>13, <1>17, EventSequences DEF FailBeforeAnswer
<1>18. CASE StoreAnswer(t) /\ ~StreamDelta(t)
  BY <1>11, <1>14, <1>18 DEF StoreAnswer, netVars
<1>19. CASE FailTurn(t) /\ ~StreamDelta(t)
  BY <1>3, <1>5, <1>11, <1>13, <1>19, EventSequences DEF FailTurn
<1>20. CASE CompleteTurn(t) /\ ~StreamDelta(t)
  <2>1. PICK events \in {<< >>, <<"completed">>, <<"done">>, <<"completed", "done">>} :
          Emit(t, events)
    BY <1>20 DEF CompleteTurn
  <2>2. events \in Seq(Event) /\ Deltas(events) = 0
    BY <1>3, <1>4, EventSequences
  <2>3. server'[t].phase = "ended" /\ Close(t)
    BY <1>11, <1>20 DEF CompleteTurn
  <2> QED
    BY <1>5, <1>13, <1>20, <2>1, <2>2, <2>3
<1>21. CASE LoseConnection(t) /\ ~StreamDelta(t)
  <2>1. wire' = wire /\ server' = server /\ connection'[t] # "notFound"
    BY <1>1, <1>21 DEF LoseConnection, serverVars, TypeOK
  <2> QED
    BY <1>14, <1>21, <2>1
<1> QED
  BY <1>12, <1>15, <1>16, <1>17, <1>18, <1>19, <1>20, <1>21 DEF Serve

LEMMA DeltasStep ==
  ASSUME TurnInvariant, TypeOK', BusyPanelCanStop', [Next]_vars
  PROVE  DeltasAreSent'
<1>1. TypeOK /\ DeltasAreSent /\ EventsInOrder /\ BusyPanelCanStop
  BY DEF TurnInvariant, PanelInvariant
<1>2. \A t \in Turn : TurnOrder(t)
  BY <1>1, OrderOfTurns
<1>3. /\ \A t \in Turn : Deltas(wire[t]) \in Nat /\ server[t].sent \in Nat
      /\ state.buffer \in Nat /\ turns \in Nat
  BY <1>1, WireTypes, StateTypes, ChatAssumption DEF TypeOK
<1>4. \A t \in Turn : Deltas(wire'[t]) \in Nat
  BY DeltasType DEF TypeOK
<1>5. ASSUME UNCHANGED <<state, wire, server, connection, turns>> PROVE DeltasAreSent'
  BY <1>1, <1>5 DEF DeltasAreSent
<1>6. Idle.status = "idle" /\ Idle.buffer = 0
  BY DEF Idle
<1>7. ASSUME NEW c \in Chat, NEW route, BeginTurn(c, route), turns < MaxTurns
      PROVE  DeltasAreSent'
  <2>1. /\ wire' = wire /\ state' = Pending(c)
        /\ server' = [server EXCEPT ![turns + 1] =
                        [phase |-> "requested", chat |-> c, sent |-> 0]]
    BY <1>7 DEF BeginTurn
  <2>2. Pending(c).status = "pending" /\ Pending(c).buffer = 0
    BY DEF Pending, Idle
  <2>3. ASSUME NEW t \in Turn PROVE Deltas(wire'[t]) <= server'[t].sent
    <3>1. CASE t = turns + 1
      <4>1. wire[t] = << >> /\ server'[t].sent = 0
        BY <1>1, <1>2, <1>3, <2>1, <3>1 DEF TurnOrder, TypeOK
      <4> QED
        BY <2>1, <4>1, NoEvents
    <3>2. CASE t # turns + 1
      <4>1. server'[t] = server[t]
        BY <1>1, <2>1, <3>2 DEF TypeOK
      <4> QED
        BY <1>1, <2>1, <4>1 DEF DeltasAreSent
    <3> QED
      BY <3>1, <3>2
  <2> QED
    BY <2>1, <2>2, <2>3 DEF DeltasAreSent
<1>8. CASE SubmitToChat
  <2>1. active \in Chat
    BY <1>1, <1>8 DEF SubmitToChat, TypeOK
  <2> QED
    BY <1>7, <1>8, <2>1 DEF SubmitToChat, CanSubmit
<1>9. CASE ChatCreated
  BY <1>7, <1>9 DEF ChatCreated, TurnInvariant, SubmissionOwnsTurn
<1>10. CASE SubmitFromWelcome \/ CreateChatFails \/ Stop
  BY <1>5, <1>10 DEF SubmitFromWelcome, CreateChatFails, Stop, serverVars, netVars
<1>11. CASE StartNewChat
  BY <1>1, <1>6, <1>11 DEF StartNewChat, serverVars, netVars, DeltasAreSent
<1>12. CASE ProcessStreamBatch
  <2>1. PICK batch \in Seq(Event), text \in 0..MaxDeltas : BatchEffect(batch, text)
    BY <1>12, ReadBatch
  <2>2. UNCHANGED <<turns, server, connection>> /\ turns \in Turn
    BY <1>12, ReadingTurn DEF ProcessStreamBatch, serverVars
  <2>3. /\ Deltas(wire[turns]) = Deltas(batch) + Deltas(wire'[turns])
        /\ Deltas(batch) \in Nat
    BY <2>1, DeltasType DEF BatchEffect
  <2>4. ASSUME NEW t \in Turn PROVE Deltas(wire'[t]) <= server'[t].sent
    <3>1. CASE t = turns
      <4>1. Deltas(wire'[t]) <= Deltas(wire[t])
        BY <1>4, <2>3, <3>1
      <4>2. Deltas(wire[t]) <= server'[t].sent /\ server'[t].sent \in Nat
        BY <1>1, <1>3, <2>2 DEF DeltasAreSent
      <4> QED
        BY <1>3, <1>4, <4>1, <4>2
    <3>2. CASE t # turns
      BY <1>1, <2>1, <2>2, <3>2 DEF BatchEffect, DeltasAreSent
    <3> QED
      BY <3>1, <3>2
  <2>5. state'.status # "started" => state'.buffer = 0
    BY <2>1 DEF BatchEffect
  <2>6. ASSUME state'.status = "started"
        PROVE  /\ state'.buffer + Deltas(wire'[turns]) <= server[turns].sent
               /\ server[turns].phase \notin {"none", "requested"}
               /\ connection[turns] # "notFound"
    <3>1. state'.buffer <= state.buffer + Deltas(batch) /\ state'.buffer \in Nat
      BY <2>1 DEF BatchEffect, ReducerState
    <3>2. state.buffer + Deltas(wire[turns]) <= server[turns].sent
      <4>1. CASE state.status = "started"
        BY <1>1, <4>1 DEF DeltasAreSent
      <4>2. CASE state.status # "started"
        BY <1>1, <1>3, <2>2, <4>2 DEF DeltasAreSent
      <4> QED
        BY <4>1, <4>2
    <3>3. \A x, s, d, e, w, n \in Nat : /\ x <= s + d
                                        /\ w = d + e
                                        /\ s + w <= n
                                        => x + e <= n
      OBVIOUS
    <3>4. state'.buffer + Deltas(wire'[turns]) <= server[turns].sent
      BY <1>3, <1>4, <2>2, <2>3, <3>1, <3>2, <3>3
    <3>5. wire[turns] # << >>
      <4>1. Len(batch) \in 1..Len(wire[turns])
        BY <2>1 DEF BatchEffect
      <4>2. wire[turns] = << >> => Len(wire[turns]) = 0
        OBVIOUS
      <4> QED
        BY <4>1, <4>2
    <3> QED
      BY <1>2, <2>2, <3>4, <3>5 DEF TurnOrder
  <2> QED
    BY <2>2, <2>4, <2>5, <2>6 DEF DeltasAreSent
<1>13. CASE StreamEnds \/ StreamFails \/ ChatNotFound \/ StreamAborted
  <2>1. /\ wire' = [wire EXCEPT ![turns] = << >>] /\ state' = Idle
        /\ UNCHANGED <<turns, server>> /\ Reading
    BY <1>13 DEF StreamEnds, StreamFails, ChatNotFound, StreamAborted, SettleTurn, Hangup,
       serverVars
  <2>2. ASSUME NEW t \in Turn PROVE Deltas(wire'[t]) <= server'[t].sent
    <3>1. wire'[t] = << >> \/ wire'[t] = wire[t]
      BY <1>1, <2>1 DEF TypeOK
    <3> QED
      BY <1>1, <1>3, <2>1, <3>1, NoEvents DEF DeltasAreSent
  <2> QED
    BY <1>6, <2>1, <2>2 DEF DeltasAreSent
<1>14. ASSUME NEW c \in Chat,
              OpenChat(c) \/ ReadMessages(c) \/ LoadMessages(c) \/ DeleteChat(c)
       PROVE  DeltasAreSent'
  BY <1>5, <1>14
     DEF OpenChat, ReadMessages, LoadMessages, DeleteChat, panelVars, serverVars, netVars
<1>15. ASSUME NEW u \in Turn, Serve(u) \/ LoseConnection(u)
       PROVE  DeltasAreSent'
  <2>1. /\ UNCHANGED <<state, turns>>
        /\ \A t \in Turn \ {u} : server'[t] = server[t] /\ connection'[t] = connection[t]
    BY <1>15, Served DEF panelVars
  <2>2. /\ \E k \in Nat : /\ server'[u].sent = server[u].sent + k
                          /\ Deltas(wire'[u]) <= Deltas(wire[u]) + k
        /\ \A t \in Turn \ {u} : wire'[t] = wire[t]
        /\ server[u].phase # "requested" /\ connection[u] # "notFound" =>
             /\ server'[u].phase \notin {"none", "requested"}
             /\ connection'[u] # "notFound"
    BY <1>15, DeltasAfterServe
  <2>3. ASSUME NEW n \in Nat, NEW t \in Turn, n + Deltas(wire[t]) <= server[t].sent
        PROVE  n + Deltas(wire'[t]) <= server'[t].sent
    <3>1. CASE t = u
      <4>1. PICK k \in Nat : /\ server'[t].sent = server[t].sent + k
                             /\ Deltas(wire'[t]) <= Deltas(wire[t]) + k
        BY <2>2, <3>1
      <4> QED
        BY <1>3, <1>4, <2>3, <4>1
    <3>2. CASE t # u
      BY <2>1, <2>2, <2>3, <3>2
    <3> QED
      BY <3>1, <3>2
  <2>4. ASSUME NEW t \in Turn PROVE Deltas(wire'[t]) <= server'[t].sent
    <3>1. 0 + Deltas(wire[t]) <= server[t].sent
      BY <1>1, <1>3 DEF DeltasAreSent
    <3>2. 0 + Deltas(wire'[t]) <= server'[t].sent
      BY <2>3, <3>1
    <3> QED
      BY <1>4, <3>2
  <2>5. ASSUME state.status = "started"
        PROVE  /\ state.buffer + Deltas(wire'[turns]) <= server'[turns].sent
               /\ server'[turns].phase \notin {"none", "requested"}
               /\ connection'[turns] # "notFound"
    <3>1. turns \in Turn
      BY <1>1, <2>5, ReadingTurn DEF BusyPanelCanStop, IsStreamingBusy
    <3>2. /\ state.buffer + Deltas(wire[turns]) <= server[turns].sent
          /\ server[turns].phase \notin {"none", "requested"}
          /\ connection[turns] # "notFound"
      BY <1>1, <2>5 DEF DeltasAreSent
    <3> QED
      BY <1>3, <2>1, <2>2, <2>3, <3>1, <3>2
  <2> QED
    BY <1>1, <2>1, <2>4, <2>5 DEF DeltasAreSent
<1>16. CASE UNCHANGED vars
  BY <1>5, <1>16 DEF vars, panelVars, serverVars, netVars
<1> QED
  BY <1>8, <1>9, <1>10, <1>11, <1>12, <1>13, <1>14, <1>15, <1>16
     DEF Next, CreateChat, ReadStream


-----------------------------------------------------------------------------
(***************************************************************************)
(* Stored and shown answers.                                               *)
(***************************************************************************)
\* What was stored stays as it is.
LEMMA StoredStays ==
  ASSUME TurnInvariant, [Next]_vars
  PROVE  /\ turns' \in Nat /\ turns <= turns'
         /\ \A t \in Turn : t <= turns =>
              /\ server'[t].chat = server[t].chat
              /\ server[t].phase \in {"stored", "ended"} =>
                   server'[t].phase \in {"stored", "ended"} /\ server'[t].sent = server[t].sent
         /\ turns' = turns \/ turns' = turns + 1
<1>1. TypeOK /\ turns \in Nat /\ \A t \in Turn : t \in Nat
  BY ChatAssumption DEF TurnInvariant, PanelInvariant, TypeOK, Turn
<1>2. ASSUME turns' = turns, server' = server
      PROVE  /\ turns' \in Nat /\ turns <= turns'
             /\ \A t \in Turn : t <= turns =>
                  /\ server'[t].chat = server[t].chat
                  /\ server[t].phase \in {"stored", "ended"} =>
                       /\ server'[t].phase \in {"stored", "ended"}
                       /\ server'[t].sent = server[t].sent
             /\ turns' = turns \/ turns' = turns + 1
  BY <1>1, <1>2
<1>3. CASE SubmitToChat \/ ChatCreated
  <2>1. PICK c, route : BeginTurn(c, route)
    BY <1>3 DEF SubmitToChat, ChatCreated
  <2>2. /\ turns' = turns + 1
        /\ server' = [server EXCEPT ![turns + 1] =
                        [phase |-> "requested", chat |-> c, sent |-> 0]]
    BY <2>1 DEF BeginTurn
  <2>3. \A t \in Turn : t <= turns => server'[t] = server[t]
    BY <1>1, <2>2 DEF TypeOK
  <2> QED
    BY <1>1, <2>2, <2>3
<1>4. ASSUME NEW u \in Turn, Serve(u) \/ LoseConnection(u)
      PROVE  /\ turns' = turns
             /\ \A t \in Turn :
                  /\ server'[t].chat = server[t].chat
                  /\ server[t].phase \in {"stored", "ended"} =>
                       /\ server'[t].phase \in {"stored", "ended"}
                       /\ server'[t].sent = server[t].sent
  <2>1. /\ turns' = turns
        /\ server'[u].chat = server[u].chat
        /\ server'[u].sent = server[u].sent \/ StreamDelta(u)
        /\ \A t \in Turn \ {u} : server'[t] = server[t]
    BY <1>4, Served DEF panelVars
  <2>2. server[u].phase \in {"stored", "ended"} =>
          ~StreamDelta(u) /\ server'[u].phase \in {"stored", "ended"}
    BY <1>1, <1>4
       DEF Serve, ReceiveMessage, RejectMessage, FailBeforeAnswer, StreamDelta, StoreAnswer,
           FailTurn, CompleteTurn, LoseConnection, serverVars, TypeOK
  <2> QED
    BY <2>1, <2>2
<1>5. CASE UNCHANGED <<turns, server>>
  BY <1>2, <1>5
<1> QED
  BY <1>1, <1>3, <1>4, <1>5
     DEF Next, CreateChat, ReadStream, SubmitFromWelcome, CreateChatFails, Stop, StartNewChat,
         ProcessStreamBatch, StreamEnds, StreamFails, ChatNotFound, StreamAborted,
         OpenChat, ReadMessages, LoadMessages, DeleteChat, panelVars, serverVars, vars

\* A panel becomes busy by a new turn only.
LEMMA SettledStaysSettled ==
  ASSUME TurnInvariant, [Next]_vars, state'.status # "idle"
  PROVE  turns' > turns \/ (state.status # "idle" /\ state'.chat = state.chat /\ turns' = turns)
<1>1. turns \in Nat /\ Idle.status = "idle"
  <2>1. turns \in 0..MaxTurns
    BY DEF TurnInvariant, PanelInvariant, TypeOK
  <2> QED
    BY <2>1, ChatAssumption DEF Idle
<1>2. CASE SubmitToChat \/ ChatCreated
  <2>1. turns' = turns + 1
    BY <1>2 DEF SubmitToChat, ChatCreated, BeginTurn
  <2> QED
    BY <1>1, <2>1
<1>3. CASE ProcessStreamBatch
  <2>1. PICK batch \in Seq(Event), text \in 0..MaxDeltas : BatchEffect(batch, text)
    BY <1>3, ReadBatch
  <2> QED
    BY <1>3, <2>1 DEF BatchEffect, ProcessStreamBatch
<1>4. CASE StreamEnds \/ StreamFails \/ ChatNotFound \/ StreamAborted \/ StartNewChat
  BY <1>1, <1>4
     DEF StreamEnds, StreamFails, ChatNotFound, StreamAborted, SettleTurn, StartNewChat
<1>5. ASSUME NEW t \in Turn, Serve(t) \/ LoseConnection(t) PROVE UNCHANGED <<state, turns>>
  BY <1>5, Served DEF panelVars
<1>6. CASE UNCHANGED <<state, turns>>
  BY <1>6
<1> QED
  BY <1>2, <1>3, <1>4, <1>5, <1>6
     DEF Next, CreateChat, ReadStream, SubmitFromWelcome, CreateChatFails, Stop,
         OpenChat, ReadMessages, LoadMessages, DeleteChat, panelVars, vars

LEMMA AnswersStay ==
  ASSUME TurnInvariant, [Next]_vars, NEW row \in Row
  PROVE  /\ StoredAnswer(row) => StoredAnswer(row)'
         /\ StoredAnswer(row)' => ShownAnswer(row)'
         /\ ShownAnswer(row) => ShownAnswer(row)'
<1>1. row.turn \in Turn /\ row.turn \in Nat /\ turns \in Nat /\ turns' \in Nat
  BY SMTT(30), ChatAssumption, StoredStays DEF TurnInvariant, PanelInvariant, TypeOK, Row, Turn
<1>2. StoredAnswer(row) => StoredAnswer(row)'
  BY <1>1, StoredStays DEF StoredAnswer
<1>3. StoredAnswer(row)' => ShownAnswer(row)'
  BY DEF ShownAnswer, StoredAnswer
<1>4. ShownAnswer(row) => ShownAnswer(row)'
  <2>1. ASSUME ShownAnswer(row), row.role = "assistant"
        PROVE  /\ row.turn <= turns'
               /\ row.turn = turns' /\ IsStreamingBusy(state)' => StoredAnswer(row)'
    <3>1. row.turn <= turns /\ turns <= turns'
      BY <2>1, StoredStays DEF ShownAnswer
    <3>2. ASSUME row.turn = turns', state'.status # "idle" PROVE StoredAnswer(row)'
      <4>1. turns' = turns
        BY <1>1, <3>1, <3>2
      <4>2. state.status # "idle"
        BY <1>1, <3>2, <4>1, SettledStaysSettled
      <4>3. StoredAnswer(row)
        BY <2>1, <3>2, <4>1, <4>2 DEF ShownAnswer, IsStreamingBusy
      <4> QED
        BY <1>2, <4>3
    <3> QED
      BY <1>1, <3>1, <3>2 DEF IsStreamingBusy
  <2> QED
    BY <2>1 DEF ShownAnswer
<1> QED
  BY <1>2, <1>3, <1>4


LEMMA RowRoles ==
  ASSUME NEW t, NEW n
  PROVE  /\ UserRow(t).role = "user"
         /\ AssistantRow(t, n).role = "assistant"
         /\ AssistantRow(t, n).turn = t
         /\ AssistantRow(t, n).text = n
BY DEF UserRow, AssistantRow

\* Where the rows of the server's lists come from.
LEMMA ServerRows ==
  ASSUME TurnInvariant, [Next]_vars, NEW c \in Chat, NEW row \in messages'[c] \cup load'[c].rows
  PROVE  \/ row \in messages[c] \cup load[c].rows
         \/ row.role = "user"
         \/ \E t \in Turn : StoreAnswer(t) /\ row = AssistantRow(t, server[t].sent)
<1>1. TypeOK
  BY DEF TurnInvariant, PanelInvariant
<1>2. ASSUME UNCHANGED <<messages, load>> PROVE row \in messages[c] \cup load[c].rows
  BY <1>2
<1>3. ASSUME NEW d, NEW rows, messages' = [messages EXCEPT ![d] = @ \cup rows], load' = load
      PROVE  row \in messages[c] \cup load[c].rows \/ row \in rows
  BY <1>1, <1>3 DEF TypeOK
<1>4. ASSUME NEW d, load' = [load EXCEPT ![d] = NoLoad], messages' = messages
      PROVE  row \in messages[c] \cup load[c].rows
  BY <1>1, <1>4 DEF NoLoad, TypeOK
<1>5. CASE SubmitToChat \/ ChatCreated
  BY <1>2, <1>5 DEF SubmitToChat, ChatCreated, BeginTurn
<1>6. CASE SubmitFromWelcome \/ CreateChatFails \/ ProcessStreamBatch \/ StreamEnds
             \/ StreamFails \/ StreamAborted \/ Stop \/ StartNewChat
  BY <1>2, <1>6
     DEF SubmitFromWelcome, CreateChatFails, ProcessStreamBatch, StreamEnds, StreamFails,
         StreamAborted, Stop, StartNewChat, cacheVars, serverVars
<1>7. CASE ChatNotFound
  BY <1>4, <1>7 DEF ChatNotFound, serverVars
<1>0. /\ load \in [Chat -> [phase : {"none", "requested", "read"}, rows : SUBSET Row]]
      /\ messages \in [Chat -> SUBSET Row]
  BY <1>1 DEF TypeOK
<1>8. ASSUME NEW d \in Chat, OpenChat(d) PROVE row \in messages[c] \cup load[c].rows
  <2>1. messages' = messages
    BY <1>8 DEF OpenChat, serverVars
  <2>2. load' = load \/ load' = [load EXCEPT ![d].phase = "requested"]
    <3>1. load' = IF cache[d].loaded \/ load[d].phase # "none"
                    THEN load ELSE [load EXCEPT ![d].phase = "requested"]
      BY <1>8, Zenon DEF OpenChat
    <3> QED
      BY <3>1, Zenon
  <2>3. load'[c].rows = load[c].rows
    BY <1>0, <2>2
  <2> QED
    BY <2>1, <2>3
<1>9. ASSUME NEW d \in Chat, ReadMessages(d) PROVE row \in messages[c] \cup load[c].rows
  <2> DEFINE answer == IF chats[d] = "exists"
                         THEN [phase |-> "read", rows |-> messages[d]] ELSE NoLoad
  <2>1. messages' = messages /\ load' = [load EXCEPT ![d] = answer]
    BY <1>9 DEF ReadMessages, serverVars
  <2>2. answer.rows \subseteq messages[d]
    BY DEF NoLoad
  <2> HIDE DEF answer
  <2>3. load'[c] = IF c = d THEN answer ELSE load[c]
    BY <1>0, <2>1
  <2>4. load'[c].rows \subseteq messages[c] \cup load[c].rows
    BY <2>2, <2>3
  <2> QED
    BY <2>1, <2>4
<1>10. ASSUME NEW d \in Chat, LoadMessages(d) PROVE row \in messages[c] \cup load[c].rows
  BY <1>4, <1>10 DEF LoadMessages, serverVars
<1>11. ASSUME NEW d \in Chat, DeleteChat(d) PROVE row \in messages[c] \cup load[c].rows
  <2>1. load' = load /\ messages'[c] \subseteq messages[c]
    BY <1>1, <1>11 DEF DeleteChat, cacheVars, TypeOK
  <2> QED
    BY <2>1
<1>12. ASSUME NEW t \in Turn, Serve(t) \/ LoseConnection(t)
       PROVE  \/ row \in messages[c] \cup load[c].rows
              \/ row.role = "user"
              \/ StoreAnswer(t) /\ row = AssistantRow(t, server[t].sent)
  <2>1. load' = load
    BY <1>12, Served DEF cacheVars
  <2>2. CASE ReceiveMessage(t)
    BY <1>3, <2>1, <2>2, RowRoles DEF ReceiveMessage
  <2>3. CASE FailBeforeAnswer(t)
    <3>1. PICK stored \in {{}, {UserRow(t)}} :
            messages' = [messages EXCEPT ![server[t].chat] = @ \cup stored]
      BY <2>3 DEF FailBeforeAnswer
    <3> QED
      BY <1>3, <2>1, <3>1, RowRoles
  <2>4. CASE StoreAnswer(t)
    BY <1>3, <2>1, <2>4 DEF StoreAnswer
  <2>5. CASE messages' = messages
    BY <1>2, <2>1, <2>5
  <2> QED
    BY <1>12, <2>2, <2>3, <2>4, <2>5
       DEF Serve, RejectMessage, StreamDelta, FailTurn, CompleteTurn, LoseConnection, serverVars
<1>13. CASE UNCHANGED vars
  BY <1>2, <1>13 DEF vars, cacheVars, serverVars
<1> QED
  BY <1>5, <1>6, <1>7, <1>8, <1>9, <1>10, <1>11, <1>12, <1>13 DEF Next, CreateChat, ReadStream

\* Where the rows come from that the panel shows.
LEMMA ShownRows ==
  ASSUME TurnInvariant, [Next]_vars, NEW c \in Chat, NEW row \in cache'[c].rows
  PROVE  \/ row \in cache[c].rows \cup load[c].rows
         \/ row.role = "user"
         \/ row.turn = turns /\ turns' = turns /\ state'.status = "idle"
<1>1. TypeOK
  BY DEF TurnInvariant, PanelInvariant
<1>2. Idle.status = "idle"
  BY DEF Idle
<1>3. CASE SubmitToChat \/ ChatCreated
  <2>1. PICK d \in Chat, route \in Chat \cup {NoChat} : BeginTurn(d, route) /\ turns < MaxTurns
    BY <1>1, <1>3
       DEF SubmitToChat, ChatCreated, CanSubmit, TypeOK, TurnInvariant, SubmissionOwnsTurn
  <2>2. cache' = [cache EXCEPT ![d] = PrependMessage(@, UserRow(turns + 1))]
    BY <2>1 DEF BeginTurn
  <2>3. UserRow(turns + 1) \in Row /\ UserRow(turns + 1).role = "user"
    <3>1. turns + 1 \in Turn /\ 0 \in 0..MaxDeltas
      BY <1>1, <2>1, ChatAssumption DEF TypeOK, Turn
    <3> QED
      BY <3>1, RowTypes, RowRoles
  <2>4. cache'[c].rows \subseteq cache[c].rows \cup {UserRow(turns + 1)}
    <3>1. cache[d] \in MessageData
      BY <1>1 DEF TypeOK, MessageData
    <3>2. PrependMessage(cache[d], UserRow(turns + 1)).rows
            \in SUBSET (cache[d].rows \cup {UserRow(turns + 1)})
      BY <2>3, <3>1, Prepended
    <3> QED
      BY <1>1, <2>2, <3>2 DEF TypeOK
  <2> QED
    BY <2>3, <2>4
<1>4. CASE ProcessStreamBatch
  <2>1. PICK batch \in Seq(Event), text \in 0..MaxDeltas : BatchEffect(batch, text)
    BY <1>4, ReadBatch
  <2>2. turns \in Turn /\ submission.chat \in Chat /\ turns' = turns
    BY <1>4, ReadingTurn DEF ProcessStreamBatch
  <2>3. /\ cache[submission.chat] \in MessageData
        /\ server[turns].sent \in 0..MaxDeltas
    BY <1>1, <2>2, WireTypes DEF TypeOK, MessageData
  <2>4. PICK new :
          /\ cache' = [cache EXCEPT ![submission.chat] = new]
          /\ new.rows \in SUBSET (cache[submission.chat].rows \cup
                                    {AssistantRow(turns, text),
                                     AssistantRow(turns, server[turns].sent)})
          /\ text = 0 /\ ~Contains(batch, "completed") =>
               new.rows = cache[submission.chat].rows
    <3> DEFINE new == InvalidateIfDone(
                        CompleteInCache(
                          PrependCachedAssistantMessage(cache[submission.chat], turns, text),
                          turns, batch),
                        batch)
    <3>1. cache' = [cache EXCEPT ![submission.chat] = new]
      BY <2>1 DEF BatchEffect
    <3>2. /\ new.rows \in SUBSET (cache[submission.chat].rows \cup
                                    {AssistantRow(turns, text),
                                     AssistantRow(turns, server[turns].sent)})
          /\ text = 0 /\ ~Contains(batch, "completed") =>
               new.rows = cache[submission.chat].rows
      BY <2>2, <2>3, CacheAfterBatch
    <3> HIDE DEF new
    <3> QED
      BY <3>1, <3>2
  <2>0. cache \in [Chat -> MessageData]
    BY <1>1 DEF TypeOK, MessageData
  <2>8. cache'[c] = IF c = submission.chat THEN new ELSE cache[c]
    BY <2>0, <2>2, <2>4
  <2>5. CASE Quiet(batch, Len(batch))
    <3>1. ~Contains(batch, "completed") /\ ~Contains(batch, "error")
      BY <2>5 DEF Quiet, Contains, TerminalEvent
    <3>2. text = 0
      BY <2>1, <3>1 DEF BatchEffect
    <3> QED
      BY <2>8, <2>4, <3>1, <3>2
  <2>6. CASE ~Quiet(batch, Len(batch))
    <3>1. state'.status = "idle"
      BY <2>1, <2>6 DEF BatchEffect
    <3>2. /\ AssistantRow(turns, text).turn = turns
          /\ AssistantRow(turns, server[turns].sent).turn = turns
      BY RowRoles
    <3>3. row \in cache[c].rows \cup {AssistantRow(turns, text),
                                      AssistantRow(turns, server[turns].sent)}
      BY <2>8, <2>4
    <3> QED
      BY <2>2, <3>1, <3>2, <3>3
  <2> QED
    BY <2>5, <2>6
<1>5. CASE StreamEnds \/ StreamFails \/ StreamAborted
  <2>1. /\ cache' = FlushAssistantBuffer(cache, state, submission.chat)
        /\ state' = Idle /\ turns' = turns /\ Reading
    BY <1>5 DEF StreamEnds, StreamFails, StreamAborted, SettleTurn
  <2>2. turns \in Turn /\ submission.chat \in Chat
    BY <2>1, ReadingTurn
  <2>3. state.status = "started" => state.message = turns
    BY DEF TurnInvariant, PanelInvariant, BusyPanelCanStop, IsStreamingBusy
  <2>4. row \in cache[c].rows \/ row = AssistantRow(turns, state.buffer)
    BY <1>1, <2>1, <2>2, <2>3, Flushed
  <2> QED
    BY <1>2, <2>1, <2>4, RowRoles
<1>6. CASE ChatNotFound
  <2>1. cache' = [cache EXCEPT ![submission.chat] = NoData]
    BY <1>6 DEF ChatNotFound
  <2>2. cache'[c].rows \subseteq cache[c].rows
    BY <1>1, <2>1 DEF NoData, TypeOK
  <2> QED
    BY <2>2
<1>7. ASSUME NEW d \in Chat, LoadMessages(d) PROVE row \in cache[c].rows \cup load[c].rows
  <2>1. cache' = [cache EXCEPT ![d] = Data(load[d].rows)]
    BY <1>7 DEF LoadMessages
  <2>2. Data(load[d].rows).rows = load[d].rows
    BY DEF Data
  <2> QED
    BY <1>1, <2>1, <2>2 DEF TypeOK
<1>8. ASSUME NEW t \in Turn, Serve(t) \/ LoseConnection(t) PROVE cache' = cache
  BY <1>8, Served DEF cacheVars
<1>9. CASE cache' = cache
  BY <1>9
<1> QED
  BY <1>3, <1>4, <1>5, <1>6, <1>7, <1>8, <1>9
     DEF Next, CreateChat, ReadStream, SubmitFromWelcome, CreateChatFails, Stop, StartNewChat,
         OpenChat, ReadMessages, DeleteChat, cacheVars, vars


\* A turn tells that it is done only after it has stored its answer.
LEMMA ClaimOfAnswer ==
  ASSUME TurnInvariant, [Next]_vars, NEW t \in Turn,
         server'[t].phase = "stored" \/ Contains(wire'[t], "done")
  PROVE  StoreAnswer(t) \/ server[t].phase = "stored" \/ Contains(wire[t], "done")
<1>1. TypeOK /\ turns \in Nat
  BY ChatAssumption DEF TurnInvariant, PanelInvariant, TypeOK
<1>2. server \in [Turn -> [phase : {"none", "requested", "asking", "stored", "ended"},
                           chat : Chat \cup {NoChat}, sent : 0 .. MaxDeltas]]
  BY <1>1 DEF TypeOK
<1>3. CASE server' = server /\ wire' = wire
  BY <1>3
<1>4. CASE SubmitToChat \/ ChatCreated
  <2>1. PICK c, route : BeginTurn(c, route)
    BY <1>4 DEF SubmitToChat, ChatCreated
  <2>2. wire' = wire /\ server' = [server EXCEPT ![turns + 1] =
                                     [phase |-> "requested", chat |-> c, sent |-> 0]]
    BY <2>1 DEF BeginTurn
  <2>3. server'[t].phase = "stored" => server[t].phase = "stored"
    BY <1>2, <2>2
  <2> QED
    BY <2>2, <2>3
<1>5. CASE ProcessStreamBatch
  <2>1. PICK batch \in Seq(Event), text \in 0..MaxDeltas : BatchEffect(batch, text)
    BY <1>5, ReadBatch
  <2>2. server' = server /\ turns \in Turn
    BY <1>5, ReadingTurn DEF ProcessStreamBatch, serverVars
  <2>3. CASE t # turns
    BY <2>1, <2>2, <2>3 DEF BatchEffect
  <2>4. CASE t = turns /\ Contains(wire'[t], "done")
    <3>1. PICK i \in 1..Len(wire'[t]) : wire'[t][i] = "done"
      BY <2>4 DEF Contains
    <3>2. /\ Len(batch) \in 1..Len(wire[t]) /\ Len(wire'[t]) = Len(wire[t]) - Len(batch)
          /\ wire'[t][i] = wire[t][Len(batch) + i]
      BY <2>1, <2>4, <3>1 DEF BatchEffect
    <3>3. Len(wire[t]) \in Nat
      BY <1>1, WireTypes
    <3>4. Len(batch) + i \in 1..Len(wire[t])
      BY <3>2, <3>3
    <3> QED
      BY <3>1, <3>2, <3>4 DEF Contains
  <2> QED
    BY <2>2, <2>3, <2>4
<1>6. CASE StreamEnds \/ StreamFails \/ ChatNotFound \/ StreamAborted
  <2>1. server' = server /\ wire' = [wire EXCEPT ![turns] = << >>] /\ Reading
    BY <1>6
       DEF StreamEnds, StreamFails, ChatNotFound, StreamAborted, Hangup, serverVars
  <2>2. ~Contains(<< >>, "done")
    BY DEF Contains
  <2>3. wire'[t] = wire[t] \/ wire'[t] = << >>
    BY <1>1, <2>1 DEF TypeOK
  <2> QED
    BY <2>1, <2>2, <2>3
<1>7. ASSUME NEW u \in Turn, Serve(u) \/ LoseConnection(u), u # t
      PROVE  server'[t] = server[t] /\ wire'[t] = wire[t]
  <2>1. server'[t] = server[t]
    BY <1>7, Served
  <2>2. wire' = wire \/ \E events : wire' = [wire EXCEPT ![u] = @ \o events]
    BY <1>7
       DEF Serve, ReceiveMessage, RejectMessage, FailBeforeAnswer, StreamDelta, StoreAnswer,
           FailTurn, CompleteTurn, LoseConnection, netVars, Emit
  <2> QED
    BY <1>1, <1>7, <2>1, <2>2 DEF TypeOK
<1>8. ASSUME NEW event \in Event, Emit(t, <<event>>), event # "done"
      PROVE  Contains(wire'[t], "done") => Contains(wire[t], "done")
  <2>1. wire[t] \in Seq(Event) /\ <<event>> \in Seq(Event)
    BY <1>1, WireTypes
  <2>2. wire'[t] = IF connection[t] = "open" THEN wire[t] \o <<event>> ELSE wire[t]
    BY <1>1, <1>8, <2>1, Emitted
  <2>3. ASSUME Contains(wire[t] \o <<event>>, "done") PROVE Contains(wire[t], "done")
    <3>1. PICK i \in 1..Len(wire[t] \o <<event>>) : (wire[t] \o <<event>>)[i] = "done"
      BY <2>3 DEF Contains
    <3>2. /\ Len(wire[t]) \in Nat /\ Len(wire[t] \o <<event>>) = Len(wire[t]) + 1
          /\ (wire[t] \o <<event>>)[i] = IF i <= Len(wire[t]) THEN wire[t][i]
                                           ELSE <<event>>[i - Len(wire[t])]
      BY <2>1, <3>1, ConcatProperties
    <3>3. i # Len(wire[t]) + 1
      BY <1>8, <3>1, <3>2
    <3>4. i \in 1..Len(wire[t]) /\ wire[t][i] = "done"
      BY <3>1, <3>2, <3>3
    <3> QED
      BY <3>4 DEF Contains
  <2> QED
    BY <2>2, <2>3
<1>9. CASE Serve(t) \/ LoseConnection(t)
  <2>1. CASE RejectMessage(t) \/ LoseConnection(t)
    BY <1>2, <2>1 DEF RejectMessage, LoseConnection, serverVars
  <2>2. CASE StoreAnswer(t) \/ CompleteTurn(t)
    BY <2>2 DEF CompleteTurn
  <2>3. CASE ReceiveMessage(t)
    <3>1. Emit(t, <<"start">>) /\ server' = [server EXCEPT ![t].phase = "asking"]
      BY <2>3 DEF ReceiveMessage
    <3>2. server'[t].phase = "asking"
      BY <1>2, <3>1
    <3> QED
      BY <1>8, <3>1, <3>2 DEF Event
  <2>4. CASE FailBeforeAnswer(t) \/ FailTurn(t)
    <3>1. Emit(t, <<"error">>) /\ server' = [server EXCEPT ![t].phase = "ended"]
      BY <2>4 DEF FailBeforeAnswer, FailTurn
    <3>2. server'[t].phase = "ended"
      BY <1>2, <3>1
    <3> QED
      BY <1>8, <3>1, <3>2 DEF Event
  <2>5. CASE StreamDelta(t)
    <3>1. Emit(t, <<"delta">>) /\ server' = [server EXCEPT ![t].sent = @ + 1]
      BY <2>5 DEF StreamDelta
    <3>2. server'[t].phase = server[t].phase
      BY <1>2, <3>1
    <3> QED
      BY <1>8, <3>1, <3>2 DEF Event
  <2> QED
    BY <1>9, <2>1, <2>2, <2>3, <2>4, <2>5 DEF Serve
<1> QED
  BY <1>3, <1>4, <1>5, <1>6, <1>7, <1>9
     DEF Next, CreateChat, ReadStream, SubmitFromWelcome, CreateChatFails, Stop, StartNewChat,
         OpenChat, ReadMessages, LoadMessages, DeleteChat, serverVars, netVars, vars


\* Messages on the server stay until their chat is deleted, which is for good.
LEMMA MessagesStay ==
  ASSUME TypeOK, [Next]_vars, NEW c \in Chat
  PROVE  /\ messages[c] \subseteq messages'[c] \/ chats'[c] = "deleted"
         /\ chats[c] = "deleted" => chats'[c] = "deleted"
<1>1. /\ messages \in [Chat -> SUBSET Row]
      /\ chats \in [Chat -> {"none", "exists", "deleted"}]
  BY DEF TypeOK
<1>2. CASE messages' = messages /\ chats' = chats
  BY <1>2
<1>3. CASE ChatCreated
  <2>1. PICK d \in Chat : /\ chats[d] = "none" /\ chats' = [chats EXCEPT ![d] = "exists"]
                          /\ BeginTurn(d, NoChat)
    BY <1>3 DEF ChatCreated
  <2>2. messages' = messages
    BY <2>1 DEF BeginTurn
  <2> QED
    BY <1>1, <2>1, <2>2
<1>4. ASSUME NEW d \in Chat, DeleteChat(d)
      PROVE  /\ messages[c] \subseteq messages'[c] \/ chats'[c] = "deleted"
             /\ chats[c] = "deleted" => chats'[c] = "deleted"
  BY <1>1, <1>4 DEF DeleteChat
<1>5. ASSUME NEW t \in Turn, Serve(t) \/ LoseConnection(t)
      PROVE  messages[c] \subseteq messages'[c] /\ chats' = chats
  <2>1. chats' = chats
    BY <1>5
       DEF Serve, ReceiveMessage, RejectMessage, FailBeforeAnswer, StreamDelta, StoreAnswer,
           FailTurn, CompleteTurn, LoseConnection
  <2>2. messages' = messages \/
          \E d, rows : messages' = [messages EXCEPT ![d] = @ \cup rows]
    BY <1>5, Zenon
       DEF Serve, ReceiveMessage, RejectMessage, FailBeforeAnswer, StreamDelta, StoreAnswer,
           FailTurn, CompleteTurn, LoseConnection, serverVars
  <2> QED
    BY <1>1, <2>1, <2>2
<1> QED
  BY <1>2, <1>3, <1>4, <1>5
     DEF Next, CreateChat, ReadStream, SubmitToChat, BeginTurn, SubmitFromWelcome,
         CreateChatFails, Stop, StartNewChat, ProcessStreamBatch, StreamEnds, StreamFails,
         ChatNotFound, StreamAborted, OpenChat, ReadMessages, LoadMessages, serverVars, vars

LEMMA AnswerStays ==
  ASSUME TurnInvariant, [Next]_vars, NEW t \in Turn,
         server'[t].phase = "stored" \/ Contains(wire'[t], "done")
  PROVE  \/ AssistantRow(t, server'[t].sent) \in messages'[server'[t].chat]
         \/ chats'[server'[t].chat] = "deleted"
<1>1. TypeOK /\ EventsInOrder /\ t \in Nat /\ turns \in Nat
  BY ChatAssumption DEF TurnInvariant, PanelInvariant, TypeOK, Turn
<1>2. CASE StoreAnswer(t)
  <2>1. /\ t <= turns /\ server'[t].chat = server[t].chat
    BY <1>2, Served DEF Serve
  <2>2. server'[t].sent = server[t].sent
    BY <1>1, <1>2 DEF StoreAnswer, TypeOK
  <2>3. server[t].chat \in Chat
    BY <1>1, <2>1 DEF EventsInOrder
  <2>4. AssistantRow(t, server[t].sent) \in messages'[server[t].chat]
    BY <1>1, <1>2, <2>3 DEF StoreAnswer, TypeOK
  <2> QED
    BY <2>1, <2>2, <2>4
<1>3. CASE ~StoreAnswer(t)
  <2>1. server[t].phase = "stored" \/ Contains(wire[t], "done")
    BY <1>3, ClaimOfAnswer
  <2>2. server[t].phase \in {"stored", "ended"}
    <3>1. DOMAIN wire[t] = 1..Len(wire[t])
      BY <1>1, WireTypes
    <3>2. Contains(wire[t], "done") => server[t].phase = "ended"
      BY <1>1, <3>1 DEF EventsInOrder, Contains, TerminalEvent
    <3> QED
      BY <2>1, <3>2
  <2>3. t <= turns /\ server[t].chat \in Chat
    BY <1>1, <2>2 DEF EventsInOrder
  <2>4. server'[t].sent = server[t].sent /\ server'[t].chat = server[t].chat
    BY <2>2, <2>3, StoredStays
  <2>5. \/ AssistantRow(t, server[t].sent) \in messages[server[t].chat]
        \/ chats[server[t].chat] = "deleted"
    BY <2>1 DEF TurnInvariant, AnswersAreStored, AnswerIsStored
  <2> QED
    BY <1>1, <2>3, <2>4, <2>5, MessagesStay
<1> QED
  BY <1>2, <1>3

\* The messages of a chat stay loaded while an answer is streamed into them.
LEMMA BusyChatIsLoaded ==
  ASSUME TurnInvariant, [Next]_vars, state'.status # "idle"
  PROVE  cache'[state'.chat].loaded
<1>1. TypeOK /\ turns \in Nat
  BY ChatAssumption DEF TurnInvariant, PanelInvariant, TypeOK
<1>2. cache \in [Chat -> MessageData] /\ Idle.status = "idle"
  BY <1>1 DEF TypeOK, MessageData, Idle
<1>3. CASE SubmitToChat \/ ChatCreated
  <2>1. PICK d \in Chat, route \in Chat \cup {NoChat} : BeginTurn(d, route) /\ turns < MaxTurns
    BY <1>1, <1>3
       DEF SubmitToChat, ChatCreated, CanSubmit, TypeOK, TurnInvariant, SubmissionOwnsTurn
  <2>2. /\ cache' = [cache EXCEPT ![d] = PrependMessage(@, UserRow(turns + 1))]
        /\ state'.chat = d
    BY <2>1 DEF BeginTurn, Pending, Idle
  <2>3. PrependMessage(cache[d], UserRow(turns + 1)).loaded
    BY DEF PrependMessage, Data
  <2> QED
    BY <1>2, <2>2, <2>3
<1>4. CASE ~(SubmitToChat \/ ChatCreated)
  <2>1. state.status # "idle" /\ state'.chat = state.chat
    <3>1. ~(turns' > turns)
      <4>1. turns' = turns
        BY <1>4
           DEF Next, CreateChat, ReadStream, SubmitFromWelcome, CreateChatFails, Stop,
               StartNewChat, ProcessStreamBatch, StreamEnds, StreamFails, ChatNotFound,
               StreamAborted, OpenChat, ReadMessages, LoadMessages, DeleteChat, Serve,
               ReceiveMessage, RejectMessage, FailBeforeAnswer, StreamDelta, StoreAnswer,
               FailTurn, CompleteTurn, LoseConnection, panelVars, vars
      <4> QED
        BY <1>1, <4>1
    <3> QED
      BY <3>1, SettledStaysSettled
  <2>2. /\ state.chat = submission.chat /\ Reading /\ state.chat \in Chat
        /\ turns \in Turn /\ cache[state.chat].loaded
    BY <2>1, ReadingTurn
       DEF TurnInvariant, PanelInvariant, BusyPanelCanStop, IsStreamingBusy, AnswersAreStored
  <2>3. CASE ProcessStreamBatch
    <3>1. PICK batch \in Seq(Event), text \in 0..MaxDeltas : BatchEffect(batch, text)
      BY <2>3, ReadBatch
    <3> DEFINE new == InvalidateIfDone(
                        CompleteInCache(
                          PrependCachedAssistantMessage(cache[submission.chat], turns, text),
                          turns, batch),
                        batch)
    <3>2. cache' = [cache EXCEPT ![submission.chat] = new]
      BY <3>1 DEF BatchEffect
    <3>3. new.loaded
      <4>1. cache[submission.chat] \in MessageData /\ server[turns].sent \in 0..MaxDeltas
        BY <1>1, <1>2, <2>2, WireTypes
      <4> QED
        BY <2>2, <4>1, CacheAfterBatch
    <3> HIDE DEF new
    <3> QED
      BY <1>2, <2>1, <2>2, <3>2, <3>3
  <2>4. CASE StreamEnds \/ StreamFails \/ ChatNotFound \/ StreamAborted
    BY <1>2, <2>4 DEF StreamEnds, StreamFails, ChatNotFound, StreamAborted, SettleTurn
  <2>5. ASSUME NEW d \in Chat, LoadMessages(d) PROVE cache'[state.chat].loaded
    <3>1. cache' = [cache EXCEPT ![d] = Data(load[d].rows)]
      BY <2>5 DEF LoadMessages
    <3>2. Data(load[d].rows).loaded
      BY DEF Data
    <3> QED
      BY <1>2, <2>2, <3>1, <3>2
  <2>6. ASSUME NEW t \in Turn, Serve(t) \/ LoseConnection(t) PROVE cache' = cache
    BY <2>6, Served DEF cacheVars
  <2>7. CASE cache' = cache
    BY <2>1, <2>2, <2>7
  <2> QED
    BY <1>4, <2>1, <2>2, <2>3, <2>4, <2>5, <2>6, <2>7
       DEF Next, CreateChat, ReadStream, SubmitFromWelcome, CreateChatFails, Stop,
           StartNewChat, OpenChat, ReadMessages, DeleteChat, cacheVars, vars
<1> QED
  BY <1>3, <1>4



LEMMA AnswersStep ==
  ASSUME TurnInvariant, TypeOK', [Next]_vars
  PROVE  AnswersAreStored'
<1>1. /\ TypeOK /\ AnswersAreStored
      /\ load \in [Chat -> [phase : {"none", "requested", "read"}, rows : SUBSET Row]]
      /\ messages \in [Chat -> SUBSET Row]
      /\ cache \in [Chat -> MessageData]
      /\ load' \in [Chat -> [phase : {"none", "requested", "read"}, rows : SUBSET Row]]
      /\ messages' \in [Chat -> SUBSET Row]
      /\ cache' \in [Chat -> MessageData]
  BY DEF TurnInvariant, PanelInvariant, TypeOK, MessageData
<1>2. ASSUME NEW c \in Chat, NEW row \in messages'[c] \cup load'[c].rows
      PROVE  StoredAnswer(row)'
  <2>1. row \in Row
    BY <1>1
  <2>2. CASE row \in messages[c] \cup load[c].rows
    BY <1>1, <2>1, <2>2, AnswersStay DEF AnswersAreStored
  <2>3. CASE row.role = "user"
    BY <2>3 DEF StoredAnswer
  <2>4. ASSUME NEW t \in Turn, StoreAnswer(t), row = AssistantRow(t, server[t].sent)
        PROVE  StoredAnswer(row)'
    <3>1. /\ t <= turns /\ turns' = turns
          /\ server'[t].phase = "stored" /\ server'[t].sent = server[t].sent
      <4>1. t <= turns /\ turns' = turns
        BY <2>4, Served DEF Serve, panelVars
      <4>2. server' = [server EXCEPT ![t].phase = "stored"]
        BY <2>4 DEF StoreAnswer
      <4> QED
        BY <1>1, <4>1, <4>2 DEF TypeOK
    <3>2. row.turn = t /\ row.text = server[t].sent
      BY <2>4, RowRoles
    <3> QED
      BY <3>1, <3>2 DEF StoredAnswer
  <2> QED
    BY <2>2, <2>3, <2>4, ServerRows
<1>3. ASSUME NEW c \in Chat, NEW row \in cache'[c].rows
      PROVE  ShownAnswer(row)'
  <2>1. row \in Row
    BY <1>1 DEF MessageData
  <2>2. CASE row \in cache[c].rows
    BY <1>1, <2>1, <2>2, AnswersStay DEF AnswersAreStored
  <2>3. CASE row \in load[c].rows
    BY <1>1, <2>1, <2>3, AnswersStay DEF AnswersAreStored
  <2>4. CASE row.role = "user"
    BY <2>4 DEF ShownAnswer
  <2>5. CASE row.turn = turns /\ turns' = turns /\ state'.status = "idle"
    <3>1. turns' \in Nat
      BY StoredStays
    <3> QED
      BY <2>5, <3>1 DEF ShownAnswer, IsStreamingBusy
  <2> QED
    BY <2>2, <2>3, <2>4, <2>5, ShownRows
<1>4. ASSUME NEW t \in Turn PROVE AnswerIsStored(t)'
  BY AnswerStays DEF AnswerIsStored
<1>5. (IsStreamingBusy(state) => cache[state.chat].loaded)'
  BY BusyChatIsLoaded DEF IsStreamingBusy
<1> QED
  BY <1>2, <1>3, <1>4, <1>5 DEF AnswersAreStored

LEMMA TurnInit == Init => TurnInvariant
<1> SUFFICES ASSUME Init PROVE TurnInvariant
  OBVIOUS
<1>1. TypeOK
  BY TypeInit
<1>2. /\ turns = 0 /\ state = Idle /\ Idle.status = "idle" /\ Idle.buffer = 0
      /\ submission = NoSubmission /\ NoSubmission.phase = "none"
      /\ controller = NoTurn /\ createdChat = FALSE
      /\ \A t \in Turn : t > 0
  BY ChatAssumption DEF Init, Idle, NoSubmission, Turn
<1>3. /\ \A t \in Turn : /\ server[t].phase = "none" /\ server[t].sent = 0
                         /\ connection[t] = "none" /\ wire[t] = << >>
      /\ \A c \in Chat : messages[c] = {} /\ load[c].rows = {} /\ cache[c].rows = {}
  BY DEF Init, NoLoad, NoData
<1>4. BusyPanelCanStop /\ SubmissionOwnsTurn
  BY <1>2 DEF BusyPanelCanStop, SubmissionOwnsTurn, IsStreamingBusy, Reading
<1>5. EventsInOrder
  <2>1. DOMAIN << >> = {} /\ \A t \in Turn : t \in Nat
    BY DEF Turn
  <2> QED
    BY <1>2, <1>3, <2>1 DEF EventsInOrder
<1>6. DeltasAreSent
  BY <1>2, <1>3, NoEvents DEF DeltasAreSent
<1>7. AnswersAreStored
  BY <1>2, <1>3 DEF AnswersAreStored, AnswerIsStored, IsStreamingBusy, Contains
<1> QED
  BY <1>1, <1>4, <1>5, <1>6, <1>7 DEF TurnInvariant, PanelInvariant

LEMMA InvariantStep == TurnInvariant /\ [Next]_vars => TurnInvariant'
<1> SUFFICES ASSUME TurnInvariant, [Next]_vars PROVE TurnInvariant'
  OBVIOUS
<1>1. TypeOK'
  BY TypeStep
<1>2. BusyPanelCanStop' /\ SubmissionOwnsTurn'
  BY ControlStep
<1>3. EventsInOrder' /\ AnswersAreStored'
  BY <1>1, OrderStep, AnswersStep
<1>4. DeltasAreSent'
  BY <1>1, <1>2, DeltasStep
<1> QED
  BY <1>1, <1>2, <1>3, <1>4 DEF TurnInvariant, PanelInvariant

-----------------------------------------------------------------------------
(***************************************************************************)
(* The guarantees.                                                         *)
(***************************************************************************)
\* Whatever is sent, stopped, opened, deleted or lost, and however the stream
\* is cut into chunks: the submission owns the last turn, the events of a turn
\* come in order, the panel never counts a delta that the server has not sent,
\* and an answer that is announced as done is in the chat's messages.
THEOREM Invariance == Spec => []TurnInvariant
<1>1. Init => TurnInvariant
  BY TurnInit
<1>2. TurnInvariant /\ [Next]_vars => TurnInvariant'
  BY InvariantStep
<1> QED
  BY <1>1, <1>2, PTL DEF Spec

\* The Stop button works: a busy panel is in the turn whose request the
\* controller can abort, and a panel without a submission is not busy.
THEOREM BusyPanelIsStoppable == Spec => []PanelInvariant
<1>1. TurnInvariant => PanelInvariant
  BY DEF TurnInvariant
<1> QED
  BY <1>1, Invariance, PTL

\* What was stopped or reset is not streamed again: applyStreamingSseEvent
\* takes the late events of a turn in the idle state, and only the next turn
\* makes the panel busy.
THEOREM NoTurnResumes == Spec => SettledTurnStaysSettled
<1>1. ASSUME TurnInvariant, [Next]_vars
      PROVE  [IsStreamingBusy(state') /\ ~IsStreamingBusy(state) => turns' > turns]_vars
  BY <1>1, SettledStaysSettled DEF IsStreamingBusy
<1> QED
  BY <1>1, Invariance, PTL DEF Spec, SettledTurnStaysSettled


\* A list of messages has the answer of turn t, with n deltas at least.
HoldsText(rows, t, n) ==
  \E r \in rows : r.role = "assistant" /\ r.turn = t /\ r.text >= n

\* What the panel streams has at most the deltas that the server has sent, and
\* so has the answer when the panel shows it already.
LEMMA BusyTurn ==
  ASSUME TurnInvariant, state.status = "started"
  PROVE  /\ Reading /\ turnLock /\ turns \in Turn
         /\ state.message = turns /\ state.chat = submission.chat /\ state.chat \in Chat
         /\ server[turns].chat = state.chat /\ server[turns].sent \in Nat
         /\ state.buffer \in Nat /\ state.buffer <= server[turns].sent
         /\ Deltas(wire[turns]) \in Nat
         /\ state.buffer + Deltas(wire[turns]) <= server[turns].sent
         /\ connection[turns] # "notFound"
         /\ cache \in [Chat -> MessageData] /\ cache[state.chat].loaded
         /\ \A r \in cache[state.chat].rows :
              r.role = "assistant" /\ r.turn = turns => r.text = server[turns].sent
<1>1. /\ TypeOK /\ BusyPanelCanStop /\ DeltasAreSent /\ AnswersAreStored
  BY DEF TurnInvariant, PanelInvariant
<1>2. Reading /\ turnLock /\ state.message = turns /\ state.chat = submission.chat
  BY <1>1 DEF BusyPanelCanStop, IsStreamingBusy
<1>3. turns \in Turn /\ state.chat \in Chat /\ server[turns].chat = state.chat
  BY <1>2, ReadingTurn
<1>4. /\ state.buffer \in Nat /\ server[turns].sent \in Nat
      /\ Deltas(wire[turns]) \in Nat
  BY <1>1, <1>3, WireTypes, StateTypes, ChatAssumption DEF TypeOK
<1>5. /\ state.buffer + Deltas(wire[turns]) <= server[turns].sent
      /\ connection[turns] # "notFound"
  BY <1>1 DEF DeltasAreSent
<1>6. state.buffer <= server[turns].sent
  BY <1>4, <1>5
<1>7. cache \in [Chat -> MessageData] /\ cache[state.chat].loaded
  BY <1>1 DEF TypeOK, MessageData, AnswersAreStored, IsStreamingBusy
<1>8. ASSUME NEW r \in cache[state.chat].rows, r.role = "assistant", r.turn = turns
      PROVE  r.text = server[turns].sent
  BY <1>1, <1>3, <1>8 DEF AnswersAreStored, ShownAnswer, StoredAnswer, IsStreamingBusy
<1> QED
  BY <1>2, <1>3, <1>4, <1>5, <1>6, <1>7, <1>8

\* A terminal event in a chunk: the text with the deltas of the chunk is kept.
LEMMA BatchKeepsText ==
  ASSUME TurnInvariant, ProcessStreamBatch, state.status = "started", state'.status = "idle"
  PROVE  LET chunk == SubSeq(wire[turns], 1, Len(wire[turns]) - Len(wire'[turns]))
             least == state.buffer + Deltas(chunk)
             c == state.chat
         IN \/ least = 0
            \/ HoldsText(cache'[c].rows, turns, least)
            \/ /\ cache'[c].stale
               /\ HoldsText(messages'[c], turns, least) \/ chats'[c] = "deleted"
<1>1. PICK batch \in Seq(Event), text \in 0..MaxDeltas : BatchEffect(batch, text)
  BY ReadBatch
<1> DEFINE c == state.chat
           sent == server[turns].sent
           least == state.buffer + Deltas(batch)
           new == InvalidateIfDone(
                    CompleteInCache(
                      PrependCachedAssistantMessage(cache[c], turns, text), turns, batch),
                    batch)
<1>2. /\ turns \in Turn /\ c \in Chat /\ c = submission.chat
      /\ cache \in [Chat -> MessageData] /\ cache[c].loaded
      /\ sent \in Nat /\ state.buffer \in Nat
      /\ state.buffer + Deltas(wire[turns]) <= sent
      /\ \A r \in cache[c].rows :
           r.role = "assistant" /\ r.turn = turns => r.text = sent
  BY BusyTurn
<1>3. wire[turns] \in Seq(Event) /\ Len(wire[turns]) \in Nat /\ sent \in 0..MaxDeltas
  BY <1>2, WireTypes DEF TurnInvariant, PanelInvariant
<1>4. SubSeq(wire[turns], 1, Len(wire[turns]) - Len(wire'[turns])) = batch
  <2>1. /\ Len(batch) \in 1..Len(wire[turns])
        /\ batch = SubSeq(wire[turns], 1, Len(batch))
        /\ Len(wire'[turns]) = Len(wire[turns]) - Len(batch)
    BY <1>1 DEF BatchEffect
  <2>2. Len(wire[turns]) - Len(wire'[turns]) = Len(batch)
    BY <1>3, <2>1
  <2> QED
    BY <2>1, <2>2
<1>5. least \in Nat /\ least <= sent
  <2>1. Deltas(wire[turns]) = Deltas(batch) + Deltas(wire'[turns]) /\ wire'[turns] \in Seq(Event)
    BY <1>1, <1>2 DEF BatchEffect
  <2>2. Deltas(batch) \in Nat /\ Deltas(wire'[turns]) \in Nat
    BY <2>1, DeltasType
  <2> QED
    BY <1>2, <2>1, <2>2
<1>6. cache'[c] = new
  <2>1. cache' = [cache EXCEPT ![c] = new]
    BY <1>1, <1>2 DEF BatchEffect
  <2> HIDE DEF new, c
  <2> QED
    BY <1>2, <2>1
<1>7. /\ text # 0 =>
           \E r \in new.rows : /\ r.role = "assistant" /\ r.turn = turns
                               /\ r.text = text \/ r \in cache[c].rows
      /\ Contains(batch, "completed") /\ text = 0 =>
           \E r \in new.rows : /\ r.role = "assistant" /\ r.turn = turns
                               /\ r.text = sent \/ r \in cache[c].rows
      /\ Contains(batch, "done") /\ cache[c].loaded => new.stale
  BY <1>2, <1>3, CacheAfterBatch
<1>8. Contains(batch, "error") \/ Contains(batch, "completed") \/ Contains(batch, "done")
  <2>1. ~Quiet(batch, Len(batch))
    BY <1>1 DEF BatchEffect
  <2> QED
    BY <2>1 DEF Quiet, Contains, TerminalEvent
<1>9. /\ Contains(batch, "error") => text = least
      /\ ~Contains(batch, "error") => text = 0
  BY <1>1 DEF BatchEffect
<1>10. CASE Contains(batch, "error")
  <2>1. least = 0 \/ HoldsText(new.rows, turns, least)
    <3> HIDE DEF new, least, c, sent
    <3> QED
      BY <1>2, <1>5, <1>7, <1>9, <1>10 DEF HoldsText
  <2> QED
    BY <1>4, <1>6, <2>1
<1>11. CASE ~Contains(batch, "error") /\ Contains(batch, "completed")
  <2>1. HoldsText(new.rows, turns, least)
    <3> HIDE DEF new, least, c, sent
    <3> QED
      BY <1>2, <1>5, <1>7, <1>9, <1>11 DEF HoldsText
  <2> QED
    BY <1>4, <1>6, <2>1
<1>12. CASE Contains(batch, "done")
  <2>1. new.stale
    BY <1>2, <1>7, <1>12
  <2>2. Contains(wire[turns], "done")
    <3>1. PICK i \in 1..Len(batch) : batch[i] = "done"
      BY <1>12 DEF Contains
    <3>2. i \in 1..Len(wire[turns]) /\ wire[turns][i] = "done"
      BY <1>1, <1>3, <3>1 DEF BatchEffect
    <3> QED
      BY <3>2 DEF Contains
  <2>3. \/ AssistantRow(turns, sent) \in messages[c]
        \/ chats[c] = "deleted"
    BY <1>2, <2>2, BusyTurn DEF TurnInvariant, AnswersAreStored, AnswerIsStored
  <2>4. messages' = messages /\ chats' = chats
    BY DEF ProcessStreamBatch, serverVars
  <2>5. AssistantRow(turns, sent) \in messages[c] => HoldsText(messages'[c], turns, least)
    BY <1>2, <1>5, <2>4, RowRoles DEF HoldsText
  <2> QED
    BY <1>4, <1>6, <2>1, <2>3, <2>4, <2>5
<1> QED
  BY <1>8, <1>10, <1>11, <1>12

\* Any other end of the stream: the text that was shown is saved.
LEMMA EndKeepsText ==
  ASSUME TurnInvariant, StreamEnds \/ StreamFails \/ StreamAborted, state.status = "started"
  PROVE  /\ turnLock' = FALSE
         /\ state.buffer = 0 \/ HoldsText(cache'[state.chat].rows, turns, state.buffer)
<1>1. cache' = FlushAssistantBuffer(cache, state, submission.chat) /\ turnLock' = FALSE
  BY DEF StreamEnds, StreamFails, StreamAborted, SettleTurn, EndSubmission
<1>2. /\ TypeOK /\ turns \in Turn /\ state.message = turns
      /\ state.chat = submission.chat /\ state.chat \in Chat
      /\ state.buffer \in Nat /\ server[turns].sent \in Nat
      /\ state.buffer <= server[turns].sent
      /\ \A r \in cache[state.chat].rows :
           r.role = "assistant" /\ r.turn = turns => r.text = server[turns].sent
  BY BusyTurn DEF TurnInvariant, PanelInvariant
<1>3. state.buffer # 0 =>
        \E r \in cache'[state.chat].rows :
          /\ r.role = "assistant" /\ r.turn = turns
          /\ r.text = state.buffer \/ r \in cache[state.chat].rows
  BY <1>1, <1>2, Flushed
<1> QED
  BY <1>1, <1>2, <1>3 DEF HoldsText

\* Only the end of a stream, or a new chat, settles a turn.
LEMMA WhatSettlesATurn ==
  ASSUME TurnInvariant, [Next]_vars, state.status = "started", state'.status = "idle"
  PROVE  ProcessStreamBatch \/ StreamEnds \/ StreamFails \/ StreamAborted \/ StartNewChat
<1>1. Reading /\ connection[turns] # "notFound"
  BY BusyTurn
<1>2. ~SubmitToChat /\ ~ChatCreated /\ ~ChatNotFound
  BY <1>1 DEF SubmitToChat, CanSubmit, IsStreamingBusy, ChatCreated, ChatNotFound, Reading
<1>3. ASSUME NEW t \in Turn, Serve(t) \/ LoseConnection(t) PROVE state' = state
  BY <1>3, Served DEF panelVars
<1> QED
  BY <1>2, <1>3
     DEF Next, CreateChat, ReadStream, SubmitFromWelcome, CreateChatFails, Stop, OpenChat,
         ReadMessages, LoadMessages, DeleteChat, panelVars, vars

\* Unless the user starts a new chat, text that has been shown is not lost when
\* its stream ends: processStreamBatch keeps the buffer and the deltas before an
\* error, or takes the completed answer, or marks the messages as stale of an
\* answer that the server has stored before it says done, or whose chat has been
\* deleted; finishTurn, failTurn and cancelTurn flush the buffer.
THEOREM ShownTextStays == Spec => ShownTextIsKept
<1> DEFINE Claim ==
      LET c == state.chat
          chunk == SubSeq(wire[turns], 1, Len(wire[turns]) - Len(wire'[turns]))
          least == IF turnLock' THEN state.buffer + Deltas(chunk) ELSE state.buffer
      IN \/ least = 0
         \/ HoldsText(cache'[c].rows, state.message, least)
         \/ /\ cache'[c].stale
            /\ HoldsText(messages'[c], state.message, least) \/ chats'[c] = "deleted"
<1>1. ASSUME TurnInvariant, [Next]_vars, state.status = "started", state'.status = "idle",
             ~StartNewChat
      PROVE  Claim
  <2>1. state.message = turns /\ turnLock
    BY <1>1, BusyTurn
  <2>2. CASE ProcessStreamBatch
    <3>1. turnLock'
      BY <2>1, <2>2 DEF ProcessStreamBatch
    <3> QED
      BY <1>1, <2>1, <2>2, <3>1, BatchKeepsText
  <2>3. CASE StreamEnds \/ StreamFails \/ StreamAborted
    BY <1>1, <2>1, <2>3, EndKeepsText
  <2> QED
    BY <1>1, <2>2, <2>3, WhatSettlesATurn
<1>2. ASSUME TurnInvariant, [Next]_vars
      PROVE  [state.status = "started" /\ ~IsStreamingBusy(state') /\ ~StartNewChat => Claim]_vars
  BY <1>1, <1>2 DEF IsStreamingBusy
<1>3. TurnInvariant /\ [Next]_vars =>
        [ /\ state.status = "started"
          /\ ~IsStreamingBusy(state')
          /\ ~StartNewChat
          => LET c == state.chat
                 chunk == SubSeq(wire[turns], 1, Len(wire[turns]) - Len(wire'[turns]))
                 least == IF turnLock' THEN state.buffer + Deltas(chunk) ELSE state.buffer
                 Holds(rows) == \E r \in rows : /\ r.role = "assistant"
                                                /\ r.turn = state.message
                                                /\ r.text >= least
             IN \/ least = 0
                \/ Holds(cache'[c].rows)
                \/ cache'[c].stale /\ (Holds(messages'[c]) \/ chats'[c] = "deleted") ]_vars
  BY <1>2 DEF HoldsText
<1> QED
  BY <1>3, Invariance, PTL DEF Spec, ShownTextIsKept

=============================================================================
