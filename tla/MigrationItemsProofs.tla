------------------------- MODULE MigrationItemsProofs -------------------------
(***************************************************************************)
(* A migration that completes while no keepalive was late has forgotten no *)
(* version and no comparison, for any number of items, instances,          *)
(* take-overs and failures.                                                *)
(***************************************************************************)
EXTENDS MigrationRunProofs

-------------------------------------------------------------------------------
(***************************************************************************)
(* The stages on the route of a migration.                                 *)
(***************************************************************************)
\* Between a stage and the next one there is none with items that are due.
LEMMA NothingBetween ==
  ASSUME TypeOK, NEW s \in Stage, NEW b \in BuildStage, s # "cancelling",
         OnRoute(s), b # s, ~(Rank[b] < Rank[s]),
         NextStage(s) = "done" \/ Rank[b] < Rank[NextStage(s)]
  PROVE  ~(run.changelogOnly <=> b = "comparisons_only")
<1>1. CASE run.changelogOnly
  <2>1. s \in {"starting", "comparisons_only", "post_check"}
    BY <1>1 DEF OnRoute, Stage, BuildStage
  <2> QED
    BY <1>1, <2>1 DEF NextStage, Following, Rank, BuildStage
<1>2. CASE ~run.changelogOnly
  <2>1. s # "comparisons_only" /\ NextStage(s) = Following[s]
    BY <1>2 DEF OnRoute, NextStage
  <2> QED
    BY <1>2, <2>1 DEF Following, Rank, Stage, BuildStage
<1> QED
  BY <1>1, <1>2

LEMMA NextOnRoute ==
  ASSUME NEW s \in Stage, OnRoute(s)
  PROVE  /\ OnRoute(NextStage(s))
         /\ s # "cancelling" => NextStage(s) \in (Stage \ {"cancelling"}) \cup {"done"}
         /\ s = "cancelling" => NextStage(s) = "cancelled"
<1>1. CASE run.changelogOnly
  <2>1. s \in {"starting", "comparisons_only", "post_check", "cancelling"}
    BY <1>1 DEF OnRoute, Stage, BuildStage
  <2> QED
    BY <1>1, <2>1 DEF OnRoute, NextStage, Following, Stage, BuildStage
<1>2. CASE ~run.changelogOnly
  BY <1>2 DEF OnRoute, NextStage, Following, Stage, BuildStage
<1> QED
  BY <1>1, <1>2

\* A stage that leaves nothing is passed.
LEMMA PassStage ==
  ASSUME TypeOK, NEW s \in Stage, s # "cancelling", OnRoute(s), NothingLeftBefore(s),
         \A x \in Item : StageOf[x] = s => Remembered(x)
  PROVE  NothingLeftBefore(NextStage(s))
<1>1. SUFFICES ASSUME NEW x \in Item,
                      NextStage(s) = "done" \/ Rank[StageOf[x]] < Rank[NextStage(s)]
               PROVE  Remembered(x)
  BY DEF NothingLeftBefore
<1>2. StageOf[x] \in BuildStage
  BY MigrationAssumption
<1>3. CASE Rank[StageOf[x]] < Rank[s] \/ StageOf[x] = s
  BY <1>3 DEF NothingLeftBefore
<1>4. CASE ~(Rank[StageOf[x]] < Rank[s]) /\ StageOf[x] # s
  BY <1>1, <1>2, <1>4, NothingBetween DEF Remembered, Due
<1> QED
  BY <1>3, <1>4

\* The query of a stage leaves out only what is remembered.
LEMMA SelectedIsEnough ==
  ASSUME TypeOK, NEW g \in Try, fsm[g].pc = "select", LeavesNothing(g),
         NEW x \in Part(fsm[g])
  PROVE  Remembered(x) \/ x \in Selected(fsm[g])
<1> DEFINE f == fsm[g]
<1> SUFFICES ASSUME ~Remembered(x) PROVE x \in Selected(f)
  OBVIOUS
<1>1. x \in Item /\ StageOf[x] = f.stage /\ WasReady(x) /\ ~Built(x)
  BY DEF Part, Remembered
<1>2. f.stage \in AsksForNeeds => Ready(x)
  BY <1>1 DEF WasReady, Ready
<1>3. f.stage = "rebuild_relaxed_builds" => (f.comparisons <=> x \in Comparison)
  BY <1>1 DEF Part, LeavesNothing, TypeOK, Fsm
<1> QED
  BY <1>1, <1>2, <1>3 DEF Selected

-------------------------------------------------------------------------------
(***************************************************************************)
(* Frames.                                                                 *)
(***************************************************************************)
\* What is remembered stays so when no build completes.
LEMMA RememberedStays ==
  ASSUME run'.changelogOnly = run.changelogOnly,
         \A x \in Item : (Complete(x)' => Complete(x)) /\ (Built(x) => Built(x)'),
         MigrationAssumption
  PROVE  /\ \A x \in Item : Remembered(x) => Remembered(x)'
         /\ \A s : NothingLeftBefore(s) => NothingLeftBefore(s)'
         /\ \A s : OnRoute(s)' <=> OnRoute(s)
<1>1. ASSUME NEW x \in Item, WasReady(x)' PROVE WasReady(x)
  <2>1. \A s \in Needs[x] : s \subseteq Item
    BY DEF MigrationAssumption
  <2> QED
    BY <1>1, <2>1 DEF WasReady
<1>2. \A x \in Item : Remembered(x) => Remembered(x)'
  BY <1>1 DEF Remembered, Due
<1>3. \A s : NothingLeftBefore(s) => NothingLeftBefore(s)'
  BY <1>2 DEF NothingLeftBefore
<1>4. \A s : OnRoute(s)' <=> OnRoute(s)
  BY DEF OnRoute
<1> QED
  BY <1>2, <1>3, <1>4

LEMMA SameBuilds ==
  UNCHANGED build => \A x \in Item : (Complete(x)' <=> Complete(x)) /\ (Built(x)' <=> Built(x))
  BY DEF Complete, Built

\* The promises of a goroutine depend on five fields of its record.
LEMMA LeavesNothingFrame ==
  ASSUME NEW g \in Try, LeavesNothing(g), run'.changelogOnly = run.changelogOnly,
         \A x \in Item : (Complete(x)' => Complete(x)) /\ (Built(x) => Built(x)'),
         fsm'[g].pc = fsm[g].pc, fsm'[g].stage = fsm[g].stage, fsm'[g].goal = fsm[g].goal,
         fsm'[g].comparisons = fsm[g].comparisons, fsm'[g].todo = fsm[g].todo
  PROVE  LeavesNothing(g)'
<1>1. /\ \A x \in Item : Remembered(x) => Remembered(x)'
      /\ \A s : NothingLeftBefore(s) => NothingLeftBefore(s)'
      /\ \A s : OnRoute(s)' <=> OnRoute(s)
  BY RememberedStays, MigrationAssumption
<1>2. \A x : x \in Part(fsm'[g]) => x \in Part(fsm[g]) /\ x \in Item
  BY DEF Part
<1> QED
  BY <1>1, <1>2 DEF LeavesNothing

\* A step of goroutine g that leaves the row's status and stage alone.
LEMMA MoverLeavesNothing ==
  ASSUME TypeOK, Promise, NothingIsLeftBehind,
         NEW g \in Try, Working(g), NEW e, Move(g, e), late' = late,
         run'.changelogOnly = run.changelogOnly,
         run'.status = run.status, run'.stage = run.stage,
         \A x \in Item : (Complete(x)' => Complete(x)) /\ (Built(x) => Built(x)'),
         ~late => (Working(g)' => LeavesNothing(g)')
  PROVE  NothingIsLeftBehind'
<1> SUFFICES ASSUME ~late PROVE NothingIsLeftBehind'
  BY DEF NothingIsLeftBehind
<1>1. /\ \A s : NothingLeftBefore(s) => NothingLeftBefore(s)'
      /\ \A s : OnRoute(s)' <=> OnRoute(s)
  BY RememberedStays, MigrationAssumption
<1>2. \A h \in Try : h # g => ~Working(h)
  BY Alone DEF Promise, Working
<1>3. \A h \in Try : h # g => ~Working(h)'
  BY <1>2 DEF Move, TypeOK, Working
<1>4. NothingIsForgotten'
  <2> SUFFICES ASSUME run'.status = "complete", NEW x \in Item PROVE Remembered(x)'
    BY DEF NothingIsForgotten, Remembered, Due
  <2>1. Remembered(x)
    BY DEF NothingIsLeftBehind, NothingIsForgotten, Remembered, Due
  <2> QED
    BY <2>1, RememberedStays, MigrationAssumption
<1> QED
  BY <1>1, <1>2, <1>3, <1>4 DEF NothingIsLeftBehind

\* An error ends the goroutine or leads it to the cancellation or the failure.
LEMMA ErrorLeavesNothing ==
  ASSUME TypeOK, NEW g \in Try, LeavesNothing(g), NEW e, Move(g, e),
         ErrorOutcome(fsm[g], e), run'.changelogOnly = run.changelogOnly,
         \A x \in Item : (Complete(x)' => Complete(x)) /\ (Built(x) => Built(x)'),
         Working(g)'
  PROVE  LeavesNothing(g)'
<1>1. fsm'[g] = e
  BY DEF Move, TypeOK
<1>2. /\ \A s : NothingLeftBefore(s) => NothingLeftBefore(s)'
      /\ \A s : OnRoute(s)' <=> OnRoute(s)
  BY RememberedStays, MigrationAssumption
<1>3. OnRoute("cancelling")
  BY DEF OnRoute
<1> QED
  BY <1>1, <1>2, <1>3 DEF LeavesNothing, ErrorOutcome, Working

LEMMA Knows ==
  ASSUME TypeOK, Promise, NothingIsLeftBehind, NEW g \in Try, Working(g), ~late
  PROVE  /\ LeavesNothing(g) /\ InOrder(g)
         /\ fsm[g] \in Fsm /\ fsm[g].stage \in Stage
         /\ fsm[g].pc \notin Last =>
              /\ run.status \in Unfinished /\ OnRoute(run.stage) /\ run.stage \in Stage
              /\ run.stage # "cancelling" => NothingLeftBefore(run.stage)
  BY Mover DEF NothingIsLeftBehind, Promise, Bookkeeping

-------------------------------------------------------------------------------
(***************************************************************************)
(* The steps of a goroutine.                                               *)
(***************************************************************************)
LEMMA VerifyOwnershipLeaves ==
  ASSUME TypeOK, Promise, NothingIsLeftBehind, NEW g \in Try, VerifyOwnership(g)
  PROVE  NothingIsLeftBehind'
<1>1. PICK e : Move(g, e) /\ e \in {Ended, BeginStage(fsm[g])}
  BY DEF VerifyOwnership
<1>2. Working(g) /\ fsm[g].pc = "verify" /\ UNCHANGED <<run, build, late>>
  BY DEF VerifyOwnership, At, Working
<1>3. fsm'[g] = e
  BY <1>1 DEF Move, TypeOK
<1>4. \/ e.pc \in {"end", "abandoned"}
      \/ e.pc \in {"halt", "start"} /\ e.stage = fsm[g].stage
  BY <1>1, <1>2, Mover DEF BeginStage, Ended, Abandoned, Idle, Fsm
<1>5. ASSUME ~late, Working(g)' PROVE LeavesNothing(g)'
  <2>1. /\ \A s : NothingLeftBefore(s) => NothingLeftBefore(s)'
        /\ \A s : OnRoute(s)' <=> OnRoute(s)
    BY <1>2, RememberedStays, MigrationAssumption, SameBuilds
  <2>2. e.pc \in {"halt", "start"} /\ e.stage = fsm[g].stage
    BY <1>3, <1>4, <1>5 DEF Working
  <2>3. LeavesNothing(g)
    BY <1>2, <1>5, Knows
  <2> QED
    BY <1>2, <1>3, <2>1, <2>2, <2>3 DEF LeavesNothing
<1> QED
  BY <1>1, <1>2, <1>5, MoverLeavesNothing, SameBuilds

LEMMA HaltLeaves ==
  ASSUME TypeOK, Promise, NothingIsLeftBehind, NEW g \in Try, Halt(g)
  PROVE  NothingIsLeftBehind'
<1> DEFINE e == [fsm[g] EXCEPT !.pc = "start", !.stage = "cancelling"]
<1>1. Move(g, e) /\ Working(g) /\ UNCHANGED <<build, late>>
  BY DEF Halt, At, Working
<1>2. /\ run'.status = run.status /\ run'.stage = run.stage
      /\ run'.changelogOnly = run.changelogOnly
  BY DEF Halt, TypeOK, Run
<1>3. fsm'[g] = e /\ e.pc = "start" /\ e.stage = "cancelling"
  BY <1>1, Mover DEF Move, TypeOK, Fsm
<1> HIDE DEF e
<1>4. ASSUME ~late, Working(g)' PROVE LeavesNothing(g)'
  BY <1>3 DEF LeavesNothing, OnRoute
<1> QED
  BY <1>1, <1>2, <1>4, MoverLeavesNothing, SameBuilds

\* The row names the stage of goroutine g: all before it is remembered.
LEMMA StageBeginsLeaves ==
  ASSUME TypeOK, Promise, NothingIsLeftBehind, NEW g \in Try, Working(g),
         fsm[g].pc = "start", run' = Begun(fsm[g]), NEW e, Move(g, e),
         UNCHANGED <<build, late>>,
         ~late /\ run'.changelogOnly = run.changelogOnly => (Working(g)' => LeavesNothing(g)')
  PROVE  NothingIsLeftBehind'
<1> SUFFICES ASSUME ~late PROVE NothingIsLeftBehind'
  BY DEF NothingIsLeftBehind
<1> DEFINE f == fsm[g]
<1>1. /\ LeavesNothing(g) /\ InOrder(g) /\ run.status \in Unfinished
      /\ OnRoute(run.stage) /\ (run.stage # "cancelling" => NothingLeftBefore(run.stage))
  BY Knows DEF Last
<1>2. /\ run'.status = run.status /\ run'.changelogOnly = run.changelogOnly
      /\ run'.stage = f.stage
  BY <1>1 DEF Begun, InOrder, TypeOK, Run
<1>3. \A h \in Try : h # g => ~Working(h)'
  BY Alone DEF Move, TypeOK, Working, Promise
<1>4. \A x \in Item : Remembered(x) => Remembered(x)'
  BY <1>2, RememberedStays, MigrationAssumption, SameBuilds
<1>5. OnRoute(run.stage)'
  BY <1>1, <1>2 DEF LeavesNothing, OnRoute
<1>6. f.stage # "cancelling" => NothingLeftBefore(f.stage)
  BY <1>1 DEF LeavesNothing
<1>7. (run.stage # "cancelling" => NothingLeftBefore(run.stage))'
  BY <1>2, <1>4, <1>6 DEF NothingLeftBefore
<1>8. NothingIsForgotten'
  BY <1>1, <1>2 DEF NothingIsForgotten, Unfinished
<1> QED
  BY <1>2, <1>3, <1>5, <1>7, <1>8 DEF NothingIsLeftBehind

LEMMA HandleStageStartLeaves ==
  ASSUME TypeOK, Promise, NothingIsLeftBehind, NEW g \in Try, HandleStageStart(g)
  PROVE  NothingIsLeftBehind'
<1> DEFINE f == fsm[g]
           e == [f EXCEPT !.pc = Entry(f.stage), !.begun = TRUE, !.comparisons = FALSE]
<1>1. /\ Move(g, e) /\ f.pc = "start" /\ Working(g) /\ run' = Begun(f)
      /\ UNCHANGED <<build, late>>
  BY DEF HandleStageStart, At, Working
<1>2. /\ fsm'[g] = e /\ e.pc \in {"recover", "cancel", "work"}
      /\ e.stage = f.stage /\ ~e.comparisons
  BY <1>1, Mover DEF Move, TypeOK, Fsm, Entry
<1> HIDE DEF e
<1>3. ASSUME ~late, run'.changelogOnly = run.changelogOnly PROVE LeavesNothing(g)'
  <2>1. \A s : OnRoute(s)' <=> OnRoute(s)
    BY <1>3 DEF OnRoute
  <2> QED
    BY <1>1, <1>2, <1>3, <2>1, Knows DEF LeavesNothing
<1> QED
  BY <1>1, <1>3, StageBeginsLeaves

\* A goroutine that has passed its stage.
LEMMA FinishingLeaves ==
  ASSUME TypeOK, Promise, NothingIsLeftBehind, ~late, NEW g \in Try, Working(g),
         run.stage = fsm[g].stage, fsm[g].pc \in {"work", "select", "wait"},
         \A x \in Item : StageOf[x] = fsm[g].stage => Remembered(x),
         UNCHANGED <<run, build>>,
         fsm'[g] = Finishing(fsm[g], NextStage(fsm[g].stage))
  PROVE  LeavesNothing(g)'
<1> DEFINE f == fsm[g]
           next == NextStage(f.stage)
<1>1. /\ LeavesNothing(g) /\ OnRoute(f.stage) /\ f \in Fsm /\ f.stage \in Stage
      /\ f.stage # "cancelling" => NothingLeftBefore(f.stage)
  BY Knows DEF Last
<1>2. fsm'[g].pc = "finish" /\ fsm'[g].goal = next /\ fsm'[g].stage = f.stage
  BY <1>1 DEF Finishing, Fsm
<1>3. /\ \A s : NothingLeftBefore(s) => NothingLeftBefore(s)'
      /\ \A s : OnRoute(s)' <=> OnRoute(s)
  BY RememberedStays, MigrationAssumption, SameBuilds
<1>4. OnRoute(next) /\ (next \notin {"cancelling", "cancelled"} => NothingLeftBefore(next))
  BY <1>1, NextOnRoute, PassStage
<1> HIDE DEF next
<1> QED
  BY <1>1, <1>2, <1>3, <1>4 DEF LeavesNothing

LEMMA WorkLeaves ==
  ASSUME TypeOK, Promise, NothingIsLeftBehind, NEW g \in Try, Work(g)
  PROVE  NothingIsLeftBehind'
<1> DEFINE f == fsm[g]
<1>1. /\ f.pc = "work" /\ Working(g) /\ UNCHANGED <<run, build, late>>
      /\ \/ Move(g, Failing(f))
         \/ Move(g, Finishing(f, NextStage(f.stage)))
  BY DEF Work, At, Working
<1>2. ASSUME ~late PROVE f.stage \notin BuildStage /\ run.stage = f.stage /\ LeavesNothing(g)
  BY <1>1, <1>2, Knows DEF InOrder
<1>3. CASE Move(g, Failing(f))
  <2>1. ErrorOutcome(f, Failing(f))
    BY <1>1, Mover, ErrorOutcomes
  <2>2. ~late => (Working(g)' => LeavesNothing(g)')
    BY <1>1, <1>2, <1>3, <2>1, ErrorLeavesNothing, SameBuilds
  <2> QED
    BY <1>1, <1>3, <2>2, MoverLeavesNothing, SameBuilds
<1>4. CASE Move(g, Finishing(f, NextStage(f.stage)))
  <2>1. fsm'[g] = Finishing(f, NextStage(f.stage))
    BY <1>4 DEF Move, TypeOK
  <2>2. ~late => LeavesNothing(g)'
    BY <1>1, <1>2, <2>1, FinishingLeaves, MigrationAssumption
  <2> QED
    BY <1>1, <1>4, <2>2, MoverLeavesNothing, SameBuilds
<1> QED
  BY <1>1, <1>3, <1>4

LEMMA RecoverLeaves ==
  ASSUME TypeOK, Promise, NothingIsLeftBehind, NEW g \in Try, Recover(g)
  PROVE  NothingIsLeftBehind'
<1> DEFINE e == [fsm[g] EXCEPT !.pc = "select"]
<1>1. /\ Move(g, e) /\ fsm[g].pc = "recover" /\ Working(g)
      /\ UNCHANGED <<run, build, late>>
  BY DEF Recover, At, Working
<1>2. /\ fsm'[g] = e /\ e.pc = "select" /\ e.stage = fsm[g].stage
      /\ e.comparisons = fsm[g].comparisons
  BY <1>1, Mover DEF Move, TypeOK, Fsm
<1> HIDE DEF e
<1>3. /\ \A x \in Item : Remembered(x) => Remembered(x)'
      /\ \A s : OnRoute(s)' <=> OnRoute(s)
  BY <1>1, RememberedStays, MigrationAssumption, SameBuilds
<1>4. ~late => LeavesNothing(g)'
  BY <1>1, <1>2, <1>3, Knows DEF LeavesNothing
<1> QED
  BY <1>1, <1>4, MoverLeavesNothing, SameBuilds

\* The stage asks again, or it has left nothing and is passed.
LEMMA AfterBuildsLeaves ==
  ASSUME TypeOK, Promise, NothingIsLeftBehind, NEW g \in Try, Working(g),
         fsm[g].pc \in {"select", "wait"}, NEW found,
         Move(g, AfterBuilds(fsm[g], found)), UNCHANGED <<run, build, late>>,
         ~late /\ (fsm[g].stage \notin InRounds \/ ~found) =>
           \A x \in Part(fsm[g]) : Remembered(x)
  PROVE  NothingIsLeftBehind'
<1> DEFINE f == fsm[g]
           e == AfterBuilds(f, found)
<1>1. fsm'[g] = e
  BY DEF Move, TypeOK
<1>2. ASSUME ~late PROVE LeavesNothing(g)'
  <2>1. /\ LeavesNothing(g) /\ f \in Fsm /\ run.stage = f.stage
    BY <1>2, Knows DEF InOrder
  <2>2. /\ \A x \in Item : Remembered(x) => Remembered(x)'
        /\ \A s : OnRoute(s)' <=> OnRoute(s)
    BY RememberedStays, MigrationAssumption, SameBuilds
  <2>3. CASE f.stage = "rebuild_relaxed_builds" /\ ~f.comparisons
    <3>1. e.pc = "select" /\ e.stage = f.stage
      BY <2>1, <2>3 DEF AfterBuilds, Fsm
    <3>2. \A x \in Item \ Comparison : StageOf[x] = "rebuild_relaxed_builds" => Remembered(x)
      BY <1>2, <2>3 DEF Part, InRounds
    <3> HIDE DEF e
    <3> QED
      BY <1>1, <2>1, <2>2, <3>1, <3>2 DEF LeavesNothing
  <2>4. CASE ~(f.stage = "rebuild_relaxed_builds" /\ ~f.comparisons)
             /\ f.stage \in InRounds /\ found
    <3>1. /\ e.pc = "select" /\ e.stage = f.stage /\ e.comparisons = f.comparisons
      BY <2>1, <2>4 DEF AfterBuilds, Fsm
    <3> HIDE DEF e
    <3> QED
      BY <1>1, <2>1, <2>2, <3>1 DEF LeavesNothing
  <2>5. CASE /\ ~(f.stage = "rebuild_relaxed_builds" /\ ~f.comparisons)
             /\ ~(f.stage \in InRounds /\ found)
    <3>1. e = Finishing(f, NextStage(f.stage))
      BY <2>5 DEF AfterBuilds
    <3>2. \A x \in Item : StageOf[x] = f.stage => Remembered(x)
      BY <1>2, <2>5 DEF Part
    <3> QED
      BY <1>1, <1>2, <2>1, <3>1, <3>2, FinishingLeaves
  <2> QED
    BY <2>3, <2>4, <2>5
<1> QED
  BY <1>2, MoverLeavesNothing, SameBuilds

LEMMA SelectItemsLeaves ==
  ASSUME TypeOK, Promise, NothingIsLeftBehind, NEW g \in Try, SelectItems(g)
  PROVE  NothingIsLeftBehind'
<1> DEFINE f == fsm[g]
           found == Selected(f)
           e == [f EXCEPT !.pc = "create", !.todo = found]
<1>1. /\ f.pc = "select" /\ Working(g) /\ UNCHANGED <<run, build, late>>
      /\ Move(g, IF found = {} THEN AfterBuilds(f, FALSE) ELSE e)
  BY DEF SelectItems, At, Working
<1>2. ASSUME ~late PROVE LeavesNothing(g) /\ \A x \in Part(f) : Remembered(x) \/ x \in found
  BY <1>1, <1>2, Knows, SelectedIsEnough
<1>3. CASE found = {}
  BY <1>1, <1>2, <1>3, AfterBuildsLeaves
<1>4. CASE found # {}
  <2>1. Move(g, e)
    BY <1>1, <1>4
  <2>6. f \in Fsm /\ fsm'[g] = e
    BY <2>1 DEF Move, TypeOK
  <2> HIDE DEF found
  <2>2. /\ fsm'[g] = e /\ e.pc = "create" /\ e.stage = f.stage
        /\ e.comparisons = f.comparisons /\ e.todo = found
    BY <2>6 DEF Fsm
  <2> HIDE DEF e
  <2>3. /\ \A x \in Item : Remembered(x) => Remembered(x)'
        /\ \A s : OnRoute(s)' <=> OnRoute(s)
    BY <1>1, RememberedStays, MigrationAssumption, SameBuilds
  <2>4. \A x : x \in Part(e) => x \in Part(f) /\ x \in Item
    BY <2>2 DEF Part
  <2>5. ~late => LeavesNothing(g)'
    BY <1>1, <1>2, <2>2, <2>3, <2>4 DEF LeavesNothing
  <2> QED
    BY <1>1, <2>1, <2>5, MoverLeavesNothing, SameBuilds
<1> QED
  BY <1>3, <1>4

LEMMA WaitForBuildsLeaves ==
  ASSUME TypeOK, Promise, NothingIsLeftBehind, NEW g \in Try, WaitForBuilds(g)
  PROVE  NothingIsLeftBehind'
<1>1. /\ fsm[g].pc = "wait" /\ Working(g) /\ Move(g, AfterBuilds(fsm[g], TRUE))
      /\ UNCHANGED <<run, build, late>>
  BY DEF WaitForBuilds, At, Working
<1>2. ASSUME ~late, fsm[g].stage \notin InRounds
      PROVE  \A x \in Part(fsm[g]) : Remembered(x)
  <2>1. LeavesNothing(g)
    BY <1>1, <1>2, Knows
  <2> QED
    BY <1>1, <1>2, <2>1 DEF LeavesNothing
<1> QED
  BY <1>1, <1>2, AfterBuildsLeaves

\* An item leaves the list of its goroutine when its build is stored.
LEMMA StoredLeaves ==
  ASSUME TypeOK, Promise, NothingIsLeftBehind, NEW g \in Try, Working(g),
         fsm[g].pc = "create", NEW x \in fsm[g].todo, NEW e, Move(g, e),
         build' = [build EXCEPT ![g][x] = IF @ = "none" THEN "queued" ELSE @],
         e.pc \in {"create", "wait"}, e.stage = fsm[g].stage,
         e.comparisons = fsm[g].comparisons,
         \A y \in fsm[g].todo : y = x \/ (e.pc = "create" /\ y \in e.todo),
         UNCHANGED <<run, late>>
  PROVE  NothingIsLeftBehind'
<1> DEFINE f == fsm[g]
<1>1. fsm'[g] = e
  BY DEF Move, TypeOK
<1>2. x \in Item
  BY Mover DEF Fsm
<1>3. /\ build'[g][x] # "none"
      /\ \A h \in Try, y \in Item :
           /\ build[h][y] # "none" => build'[h][y] # "none"
           /\ build'[h][y] = "complete" => build[h][y] = "complete"
  BY <1>2 DEF TypeOK
<1>4. Built(x)' /\ \A y \in Item : (Complete(y)' => Complete(y)) /\ (Built(y) => Built(y)')
  BY <1>3 DEF Built, Complete
<1>5. /\ \A y \in Item : Remembered(y) => Remembered(y)'
      /\ \A s : OnRoute(s)' <=> OnRoute(s)
  BY <1>4, RememberedStays, MigrationAssumption
<1>6. Remembered(x)'
  BY <1>4 DEF Remembered
<1>7. \A y : y \in Part(e) => y \in Part(f) /\ y \in Item
  BY DEF Part
<1>8. ~late => LeavesNothing(g)'
  <2> SUFFICES ASSUME ~late PROVE LeavesNothing(g)'
    OBVIOUS
  <2>1. LeavesNothing(g)
    BY Knows
  <2>2. f.stage \notin InRounds =>
          \A y \in Part(e) : Remembered(y)' \/ (e.pc = "create" /\ y \in e.todo)
    BY <1>5, <1>6, <1>7, <2>1 DEF LeavesNothing
  <2>3. f.comparisons =>
          \A y \in Item \ Comparison : StageOf[y] = "rebuild_relaxed_builds" => Remembered(y)'
    BY <1>5, <2>1 DEF LeavesNothing
  <2>4. OnRoute(e.stage)
    BY <2>1 DEF LeavesNothing
  <2> QED
    BY <1>1, <1>5, <2>2, <2>3, <2>4 DEF LeavesNothing
<1> QED
  BY <1>4, <1>8, MoverLeavesNothing

LEMMA CreateBuildLeaves ==
  ASSUME TypeOK, Promise, NothingIsLeftBehind,
         NEW g \in Try, NEW x \in Item, CreateBuild(g, x)
  PROVE  NothingIsLeftBehind'
<1> DEFINE rest == fsm[g].todo \ {x}
           pc == IF rest = {} THEN "wait" ELSE "create"
           e == [fsm[g] EXCEPT !.todo = rest, !.pc = pc]
<1>1. Move(g, e) /\ fsm[g].pc = "create" /\ x \in fsm[g].todo /\ Working(g)
  BY DEF CreateBuild, At, Working
<1>2. /\ pc \in {"create", "wait"}
      /\ \A y \in fsm[g].todo : y = x \/ (pc = "create" /\ y \in rest)
  OBVIOUS
<1> HIDE DEF rest, pc
<1>3. /\ e.pc = pc /\ e.stage = fsm[g].stage /\ e.comparisons = fsm[g].comparisons
      /\ e.todo = rest
  BY <1>1, Mover DEF Fsm
<1> HIDE DEF e
<1> QED
  BY <1>1, <1>2, <1>3, StoredLeaves DEF CreateBuild

LEMMA CreateUnansweredLeaves ==
  ASSUME TypeOK, Promise, NothingIsLeftBehind,
         NEW g \in Try, NEW x \in Item, CreateUnanswered(g, x)
  PROVE  NothingIsLeftBehind'
<1> DEFINE e == [fsm[g] EXCEPT !.check = TRUE]
<1>1. Move(g, e) /\ fsm[g].pc = "create" /\ x \in fsm[g].todo /\ Working(g)
  BY DEF CreateUnanswered, At, Working
<1>2. /\ e.pc = "create" /\ e.stage = fsm[g].stage /\ e.comparisons = fsm[g].comparisons
      /\ e.todo = fsm[g].todo
  BY <1>1, Mover DEF Fsm
<1> HIDE DEF e
<1> QED
  BY <1>1, <1>2, StoredLeaves DEF CreateUnanswered

LEMMA CancelledNotComplete ==
  ASSUME NEW g \in Try, build' = AfterCancel(g)
  PROVE  \A x \in Item : (Complete(x)' => Complete(x)) /\ (Built(x) => Built(x)')
<1>1. \A h \in Try, x \in Item :
        /\ build'[h][x] = "complete" => build[h][x] = "complete"
        /\ build[h][x] # "none" => build'[h][x] # "none"
  BY DEF AfterCancel, CancelledBuilds, Queued
<1> QED
  BY <1>1 DEF Built, Complete

LEMMA CancelBuildsLeaves ==
  ASSUME TypeOK, Promise, NothingIsLeftBehind, NEW g \in Try, CancelBuilds(g)
  PROVE  NothingIsLeftBehind'
<1> DEFINE e == Finishing(fsm[g], "cancelled")
<1>1. Move(g, e) /\ fsm[g].pc = "cancel" /\ Working(g) /\ UNCHANGED <<run, late>>
  BY DEF CancelBuilds, At, Working
<1>2. /\ fsm'[g] = e /\ e.pc = "finish" /\ e.goal = "cancelled" /\ e.stage = fsm[g].stage
  BY <1>1, Mover DEF Finishing, Fsm, Move, TypeOK
<1> HIDE DEF e
<1>4. \A x \in Item : (Complete(x)' => Complete(x)) /\ (Built(x) => Built(x)')
  BY CancelledNotComplete DEF CancelBuilds
<1>5. \A s : OnRoute(s)' <=> OnRoute(s)
  BY <1>1, <1>4, RememberedStays, MigrationAssumption
<1>6. OnRoute("cancelled")
  BY DEF OnRoute
<1>7. ~late => LeavesNothing(g)'
  BY <1>1, <1>2, <1>5, <1>6, Knows DEF LeavesNothing
<1> QED
  BY <1>1, <1>4, <1>7, MoverLeavesNothing

LEMMA HandleStageFinishLeaves ==
  ASSUME TypeOK, Promise, NothingIsLeftBehind, NEW g \in Try, HandleStageFinish(g)
  PROVE  NothingIsLeftBehind'
<1> DEFINE f == fsm[g]
           over == [f EXCEPT !.pc = "drop"]
           next == [f EXCEPT !.pc = "verify", !.stage = f.goal, !.goal = "done"]
<1>1. /\ f.pc = "finish" /\ Working(g) /\ run' = [run EXCEPT !.stale = FALSE]
      /\ UNCHANGED <<build, late>>
  BY DEF HandleStageFinish, At, Working
<1>2. /\ run'.status = run.status /\ run'.stage = run.stage
      /\ run'.changelogOnly = run.changelogOnly
  BY <1>1 DEF TypeOK, Run
<1>3. /\ \A s : NothingLeftBefore(s) => NothingLeftBefore(s)'
      /\ \A s : OnRoute(s)' <=> OnRoute(s)
  BY <1>1, <1>2, RememberedStays, MigrationAssumption, SameBuilds
<1>4. f \in Fsm /\ (~late => LeavesNothing(g))
  BY <1>1, Knows, Mover
<1>5. CASE f.goal \in {"done", "cancelled"}
  <2>1. Move(g, over)
    BY <1>5 DEF HandleStageFinish
  <2>2. fsm'[g] = over /\ over.pc = "drop" /\ over.goal = f.goal /\ over.stage = f.stage
    BY <1>4, <2>1 DEF Move, TypeOK, Fsm
  <2> HIDE DEF over
  <2>3. ~late => LeavesNothing(g)'
    BY <1>1, <1>3, <1>4, <2>2 DEF LeavesNothing
  <2> QED
    BY <1>1, <1>2, <2>1, <2>3, MoverLeavesNothing, SameBuilds
<1>6. CASE f.goal \notin {"done", "cancelled"}
  <2>1. Move(g, next)
    BY <1>6 DEF HandleStageFinish
  <2>2. fsm'[g] = next /\ next.pc = "verify" /\ next.stage = f.goal
    BY <1>4, <2>1 DEF Move, TypeOK, Fsm
  <2> HIDE DEF next
  <2>3. ~late => LeavesNothing(g)'
    BY <1>1, <1>3, <1>4, <1>6, <2>2 DEF LeavesNothing
  <2> QED
    BY <1>1, <1>2, <2>1, <2>3, MoverLeavesNothing, SameBuilds
<1> QED
  BY <1>5, <1>6

LEMMA DropTablesLeaves ==
  ASSUME TypeOK, Promise, NothingIsLeftBehind, NEW g \in Try, DropTables(g)
  PROVE  NothingIsLeftBehind'
<1> DEFINE e == Settling(fsm[g])
<1>1. Move(g, e) /\ fsm[g].pc = "drop" /\ Working(g) /\ UNCHANGED <<run, build, late>>
  BY DEF DropTables, At, Working
<1>2. ErrorOutcome(fsm[g], e)
  BY <1>1, ErrorOutcomes, Mover
<1> HIDE DEF e
<1>3. ~late => (Working(g)' => LeavesNothing(g)')
  BY <1>1, <1>2, ErrorLeavesNothing, SameBuilds, Knows
<1> QED
  BY <1>1, <1>3, MoverLeavesNothing, SameBuilds

\* The last statement completes a migration that has left nothing behind.
LEMMA SettledLeaves ==
  ASSUME TypeOK, Promise, NothingIsLeftBehind, NEW g \in Try, Working(g),
         fsm[g].pc = "settle", run' = SettledAs(fsm[g].goal), NEW e, Move(g, e),
         UNCHANGED <<build, late>>,
         ~late /\ run'.changelogOnly = run.changelogOnly => (Working(g)' => LeavesNothing(g)')
  PROVE  NothingIsLeftBehind'
<1> SUFFICES ASSUME ~late PROVE NothingIsLeftBehind'
  BY DEF NothingIsLeftBehind
<1> DEFINE goal == fsm[g].goal
<1>1. LeavesNothing(g) /\ run \in Run
  BY Knows, Mover
<1>2. /\ run'.status \in Settled /\ run'.changelogOnly = run.changelogOnly
      /\ run'.status = "complete" => goal = "done"
  BY <1>1 DEF SettledAs, Run, Settled
<1>3. run'.status \notin Unfinished
  BY <1>2 DEF Settled, Unfinished
<1>4. \A h \in Try : h # g => ~Working(h)'
  BY Alone DEF Move, TypeOK, Working, Promise
<1>5. \A x \in Item : Remembered(x) => Remembered(x)'
  BY <1>2, RememberedStays, MigrationAssumption, SameBuilds
<1>6. NothingIsForgotten'
  <2> SUFFICES ASSUME run'.status = "complete", NEW x \in Item PROVE Remembered(x)'
    BY DEF NothingIsForgotten, Remembered, Due
  <2> QED
    BY <1>1, <1>2, <1>5 DEF LeavesNothing, NothingLeftBefore
<1> QED
  BY <1>2, <1>3, <1>4, <1>6 DEF NothingIsLeftBehind

LEMMA SettleLeaves ==
  ASSUME TypeOK, Promise, NothingIsLeftBehind, NEW g \in Try, Settle(g)
  PROVE  NothingIsLeftBehind'
<1>1. /\ Move(g, Ended) /\ fsm[g].pc = "settle" /\ Working(g)
      /\ run' = SettledAs(fsm[g].goal) /\ UNCHANGED <<build, late>>
  BY DEF Settle, At, Working
<1>2. ~Working(g)'
  BY <1>1 DEF Move, TypeOK, Ended, Idle, Working
<1> QED
  BY <1>1, <1>2, SettledLeaves

\* Another attempt, or an error, while the row keeps its status and stage.
LEMMA AgainLeaves ==
  ASSUME TypeOK, Promise, NothingIsLeftBehind, NEW g \in Try, Working(g), late' = late,
         NEW e, Move(g, e),
         (\E b \in BOOLEAN : e = [fsm[g] EXCEPT !.check = b]) \/ ErrorOutcome(fsm[g], e),
         run'.changelogOnly = run.changelogOnly,
         run'.status = run.status, run'.stage = run.stage,
         \A x \in Item : (Complete(x)' => Complete(x)) /\ (Built(x) => Built(x)')
  PROVE  NothingIsLeftBehind'
<1>1. CASE \E b \in BOOLEAN : e = [fsm[g] EXCEPT !.check = b]
  <2>1. /\ e.pc = fsm[g].pc /\ e.stage = fsm[g].stage /\ e.goal = fsm[g].goal
        /\ e.comparisons = fsm[g].comparisons /\ e.todo = fsm[g].todo
    BY <1>1, Mover DEF Fsm
  <2>2. fsm'[g] = e
    BY DEF Move, TypeOK
  <2>3. ~late => LeavesNothing(g)'
    BY <2>1, <2>2, LeavesNothingFrame, Knows
  <2> QED
    BY <2>3, MoverLeavesNothing
<1>2. CASE ErrorOutcome(fsm[g], e)
  <2>1. ~late => (Working(g)' => LeavesNothing(g)')
    BY <1>2, ErrorLeavesNothing, Knows
  <2> QED
    BY <2>1, MoverLeavesNothing
<1> QED
  BY <1>1, <1>2

LEMMA FailureLeaves ==
  ASSUME TypeOK, Promise, NothingIsLeftBehind, NEW g \in Try,
         \/ ContextCancelled(g) \/ VerifyBeforeRetry(g) \/ WaitTimesOut(g)
         \/ StatementFails(g) \/ DatabaseUnavailable(g)
  PROVE  NothingIsLeftBehind'
<1>1. Working(g)
  BY DEF ContextCancelled, VerifyBeforeRetry, WaitTimesOut, StatementFails, DatabaseUnavailable,
     At, TakesContext, Statement, Body, Working
<1>2. UNCHANGED <<run, build, late>>
  BY DEF ContextCancelled, VerifyBeforeRetry, WaitTimesOut, StatementFails, DatabaseUnavailable
<1>3. \/ \E b \in BOOLEAN : Move(g, [fsm[g] EXCEPT !.check = b])
      \/ Move(g, AfterError(fsm[g])) \/ Move(g, AfterLoss(fsm[g]))
  BY DEF ContextCancelled, VerifyBeforeRetry, WaitTimesOut, StatementFails, DatabaseUnavailable
<1>4. ErrorOutcome(fsm[g], AfterError(fsm[g])) /\ ErrorOutcome(fsm[g], AfterLoss(fsm[g]))
  BY <1>1, Mover, AfterErrorOutcome, AfterLossOutcome
<1> QED
  BY <1>1, <1>2, <1>3, <1>4, AgainLeaves, SameBuilds

LEMMA AnswerLostLeaves ==
  ASSUME TypeOK, Promise, NothingIsLeftBehind, NEW g \in Try, AnswerLost(g)
  PROVE  NothingIsLeftBehind'
<1> DEFINE f == fsm[g]
           again == [f EXCEPT !.check = TRUE]
<1>1. /\ Working(g) /\ UNCHANGED late
      /\ Move(g, AfterError(f)) \/ Move(g, again)
  BY DEF AnswerLost, At, Working
<1>2. f \in Fsm /\ ErrorOutcome(f, AfterError(f))
  BY <1>1, Mover, AfterErrorOutcome
<1>3. CASE f.pc = "start"
  <2>1. run' = Begun(f) /\ UNCHANGED build
    BY <1>3 DEF AnswerLost, At
  <2>2. PICK e \in {again, CancelNow(f)} : Move(g, e)
    BY <1>3 DEF AnswerLost, AfterError, Body
  <2>3. /\ fsm'[g] = e
        /\ \/ e.pc = "start" /\ e.stage = f.stage /\ e.comparisons = f.comparisons
           \/ e.pc = "cancel" /\ e.stage = "cancelling"
    BY <1>2, <1>3, <2>2 DEF CancelNow, Fsm, Move, TypeOK
  <2> HIDE DEF again
  <2>4. ASSUME ~late, run'.changelogOnly = run.changelogOnly PROVE LeavesNothing(g)'
    <3>1. LeavesNothing(g) /\ OnRoute("cancelling")
      BY <1>1, <2>4, Knows DEF OnRoute
    <3>2. /\ \A s : NothingLeftBefore(s) => NothingLeftBefore(s)'
          /\ \A s : OnRoute(s)' <=> OnRoute(s)
      BY <2>1, <2>4, RememberedStays, MigrationAssumption, SameBuilds
    <3> QED
      BY <1>3, <2>3, <3>1, <3>2 DEF LeavesNothing
  <2> QED
    BY <1>1, <1>3, <2>1, <2>2, <2>4, StageBeginsLeaves
<1>4. CASE f.pc = "settle"
  <2>1. run' = SettledAs(f.goal) /\ UNCHANGED build
    BY <1>4 DEF AnswerLost, At
  <2>2. PICK e \in {again, Abandoned, Failing([f EXCEPT !.begun = TRUE])} : Move(g, e)
    BY <1>4 DEF AnswerLost, AfterError, Body
  <2>3. /\ fsm'[g] = e
        /\ \/ e.pc = "abandoned"
           \/ e.pc = "drop" /\ e.goal = "failed" /\ e.stage = f.stage
           \/ e.pc = "settle" /\ e.goal = f.goal /\ e.stage = f.stage
    BY <1>2, <1>4, <2>2 DEF Abandoned, Idle, Failing, Fsm, Move, TypeOK
  <2> HIDE DEF again
  <2>4. ASSUME ~late, run'.changelogOnly = run.changelogOnly, Working(g)'
        PROVE  LeavesNothing(g)'
    <3>1. LeavesNothing(g)
      BY <1>1, <2>4, Knows
    <3>2. /\ \A s : NothingLeftBefore(s) => NothingLeftBefore(s)'
          /\ \A s : OnRoute(s)' <=> OnRoute(s)
      BY <2>1, <2>4, RememberedStays, MigrationAssumption, SameBuilds
    <3> QED
      BY <1>4, <2>3, <2>4, <3>1, <3>2 DEF LeavesNothing, Working
  <2> QED
    BY <1>1, <1>4, <2>1, <2>2, <2>4, SettledLeaves
<1>5. CASE f.pc \notin {"start", "settle"}
  <2>1. /\ run'.changelogOnly = run.changelogOnly
        /\ run'.status = run.status /\ run'.stage = run.stage
    <3>1. run' \in {run, [run EXCEPT !.stale = FALSE]} /\ run \in Run
      BY <1>5 DEF AnswerLost, At, TypeOK
    <3> QED
      BY <3>1 DEF Run
  <2>2. \A x \in Item : (Complete(x)' => Complete(x)) /\ (Built(x) => Built(x)')
    BY CancelledNotComplete, SameBuilds DEF AnswerLost
  <2> QED
    BY <1>1, <1>2, <2>1, <2>2, AgainLeaves
<1> QED
  BY <1>3, <1>4, <1>5

-------------------------------------------------------------------------------
(***************************************************************************)
(* The keepalive, the other instances, the builders and the administrator. *)
(***************************************************************************)
\* Items, stages and the goroutines that go on are as before.
LEMMA SameItems ==
  ASSUME TypeOK, Promise, NothingIsLeftBehind, UNCHANGED <<build, late>>,
         run'.stage = run.stage, run'.changelogOnly = run.changelogOnly,
         ~late /\ run'.status \in Unfinished => run.status \in Unfinished,
         run'.status = "complete" => run.status = "complete",
         \A g \in Try : Working(g)' =>
           /\ Working(g)
           /\ fsm'[g].pc = fsm[g].pc /\ fsm'[g].stage = fsm[g].stage
           /\ fsm'[g].goal = fsm[g].goal /\ fsm'[g].comparisons = fsm[g].comparisons
           /\ fsm'[g].todo = fsm[g].todo
  PROVE  NothingIsLeftBehind'
<1> SUFFICES ASSUME ~late PROVE NothingIsLeftBehind'
  BY DEF NothingIsLeftBehind
<1>1. /\ \A x \in Item : Remembered(x) => Remembered(x)'
      /\ \A s : NothingLeftBefore(s) => NothingLeftBefore(s)'
      /\ \A s : OnRoute(s)' <=> OnRoute(s)
  BY RememberedStays, MigrationAssumption, SameBuilds
<1>2. ASSUME NEW g \in Try, Working(g)' PROVE LeavesNothing(g)'
  BY <1>2, LeavesNothingFrame, SameBuilds DEF NothingIsLeftBehind
<1>3. ASSUME run'.status \in Unfinished
      PROVE  OnRoute(run.stage)' /\ (run.stage # "cancelling" => NothingLeftBefore(run.stage))'
  <2>1. OnRoute(run.stage) /\ (run.stage # "cancelling" => NothingLeftBefore(run.stage))
    BY <1>3 DEF NothingIsLeftBehind
  <2>2. OnRoute(run.stage)'
    BY <2>1 DEF OnRoute
  <2>3. (run.stage # "cancelling" => NothingLeftBefore(run.stage))'
    BY <1>1, <2>1 DEF NothingLeftBefore
  <2> QED
    BY <2>2, <2>3
<1>4. NothingIsForgotten'
  <2> SUFFICES ASSUME run'.status = "complete", NEW x \in Item PROVE Remembered(x)'
    BY DEF NothingIsForgotten, Remembered, Due
  <2>1. Remembered(x)
    BY DEF NothingIsLeftBehind, NothingIsForgotten, Remembered, Due
  <2> QED
    BY <1>1, <2>1
<1> QED
  BY <1>2, <1>3, <1>4 DEF NothingIsLeftBehind

LEMMA KeepAliveLeaves ==
  ASSUME TypeOK, Promise, NothingIsLeftBehind, NEW g \in Try, KeepAlive(g)
  PROVE  NothingIsLeftBehind'
<1>1. UNCHANGED <<build, late>>
  BY DEF KeepAlive
<1>2. /\ run'.changelogOnly = run.changelogOnly /\ run'.status = run.status
      /\ run'.stage = run.stage
  BY RowFacts DEF KeepAlive, Run
<1>3. \A h \in Try :
        /\ fsm'[h].pc = fsm[h].pc /\ fsm'[h].stage = fsm[h].stage
        /\ fsm'[h].goal = fsm[h].goal /\ fsm'[h].comparisons = fsm[h].comparisons
        /\ fsm'[h].todo = fsm[h].todo
  <2>1. fsm' = fsm \/ fsm' = [fsm EXCEPT ![g] = [fsm[g] EXCEPT !.cancelled = TRUE]]
    BY DEF KeepAlive
  <2>2. \A f \in Fsm :
          LET c == [f EXCEPT !.cancelled = TRUE] IN
          /\ c.pc = f.pc /\ c.stage = f.stage /\ c.goal = f.goal
          /\ c.comparisons = f.comparisons /\ c.todo = f.todo
    BY DEF Fsm
  <2>3. \A h \in Try : fsm'[h] = fsm[h] \/ fsm'[h] = [fsm[h] EXCEPT !.cancelled = TRUE]
    BY <2>1 DEF TypeOK
  <2>4. \A h \in Try : fsm[h] \in Fsm
    BY RowFacts
  <2> QED
    BY ONLY ZenonT(30), <2>2, <2>3, <2>4
<1> QED
  BY <1>1, <1>2, <1>3, SameItems DEF Working

LEMMA BecomeStaleLeaves ==
  ASSUME TypeOK, Promise, NothingIsLeftBehind, BecomeStale
  PROVE  NothingIsLeftBehind'
<1>1. /\ run' = [run EXCEPT !.stale = TRUE] /\ UNCHANGED <<build, fsm>>
      /\ UNCHANGED late \/ late'
  BY DEF BecomeStale
<1>2. /\ run'.changelogOnly = run.changelogOnly /\ run'.status = run.status
      /\ run'.stage = run.stage
  BY <1>1, RowFacts DEF Run
<1>3. CASE UNCHANGED late
  BY <1>1, <1>2, <1>3, SameItems DEF Working
<1>4. CASE late'
  BY <1>4 DEF NothingIsLeftBehind
<1> QED
  BY <1>1, <1>3, <1>4

LEMMA RestartMigrationsLeaves ==
  ASSUME TypeOK, Promise, NothingIsLeftBehind, NEW i \in Instance, RestartMigrations(i)
  PROVE  NothingIsLeftBehind'
<1>1. run.status \in Unfinished /\ run.stale /\ UNCHANGED <<build, late>>
  BY DEF RestartMigrations, StaleFor
<1>2. CASE RetriesExhausted
  <2>1. run' = [run EXCEPT !.status = "failed"] /\ UNCHANGED fsm
    BY <1>2 DEF RestartMigrations
  <2>2. /\ run'.changelogOnly = run.changelogOnly /\ run'.status = "failed"
        /\ run'.stage = run.stage
    BY <2>1, RowFacts DEF Run
  <2> QED
    BY <1>1, <2>1, <2>2, SameItems DEF Working, Unfinished
<1>3. CASE ~RetriesExhausted
  <2> SUFFICES ASSUME ~late PROVE NothingIsLeftBehind'
    BY <1>1 DEF NothingIsLeftBehind
  <2> PICK g \in Try : g = run.retries + 1
    BY <1>3, TryType, RowFacts DEF RetriesExhausted, Try
  <2> DEFINE e == Restarted(run.stage, run.begun)
  <2>1. /\ run' = [run EXCEPT !.owner = i, !.retries = g, !.stale = FALSE]
        /\ Move(g, e)
    BY <1>3 DEF RestartMigrations
  <2>2. /\ run'.changelogOnly = run.changelogOnly /\ run'.status = run.status
        /\ run'.stage = run.stage
    BY <2>1, RowFacts DEF Run
  <2>3. e.pc = "verify" /\ e.stage = run.stage
    BY DEF Restarted, Started, Idle
  <2>4. fsm'[g] = e /\ \A h \in Try : h # g => fsm'[h] = fsm[h]
    BY <2>1 DEF Move, TypeOK
  <2> HIDE DEF e
  <2>5. \A h \in Try : fsm[h].pc \in {"none", "end"}
    <3>1. \A h \in Try : ~Unheard(h)
      BY <1>1 DEF Unheard, Settled, Unfinished
    <3> QED
      BY <1>1, <3>1, RowFacts DEF Promise, LastOneWorks, TypeOK
  <2>6. /\ \A x \in Item : Remembered(x) => Remembered(x)'
        /\ \A s : NothingLeftBefore(s) => NothingLeftBefore(s)'
        /\ \A s : OnRoute(s)' <=> OnRoute(s)
    BY <1>1, <2>2, RememberedStays, MigrationAssumption, SameBuilds
  <2>7. OnRoute(run.stage) /\ (run.stage # "cancelling" => NothingLeftBefore(run.stage))
    BY <1>1 DEF NothingIsLeftBehind
  <2>8. LeavesNothing(g)'
    BY <2>3, <2>4, <2>6, <2>7 DEF LeavesNothing
  <2>9. OnRoute(run.stage)'
    BY <2>2, <2>7 DEF OnRoute
  <2>10. (run.stage # "cancelling" => NothingLeftBefore(run.stage))'
    BY <2>2, <2>6, <2>7 DEF NothingLeftBefore
  <2>11. \A h \in Try : Working(h)' => h = g
    BY <2>4, <2>5 DEF Working
  <2>12. NothingIsForgotten'
    BY <1>1, <2>2 DEF NothingIsForgotten, Unfinished
  <2> QED
    BY <2>8, <2>9, <2>10, <2>11, <2>12 DEF NothingIsLeftBehind
<1> QED
  BY <1>2, <1>3

LEMMA CancelRunningMigrationsLeaves ==
  ASSUME TypeOK, Promise, NothingIsLeftBehind, CancelRunningMigrations
  PROVE  NothingIsLeftBehind'
<1>1. /\ run.status = "running" /\ run' = [run EXCEPT !.status = "cancelling"]
      /\ UNCHANGED <<build, fsm, late>>
  BY DEF CancelRunningMigrations
<1>2. /\ run'.changelogOnly = run.changelogOnly /\ run'.status = "cancelling"
      /\ run'.stage = run.stage /\ run.status \in Unfinished
  BY <1>1, RowFacts DEF Run, Unfinished
<1> QED
  BY <1>1, <1>2, SameItems DEF Working

LEMMA CrashLeaves ==
  ASSUME TypeOK, Promise, NothingIsLeftBehind, NEW i \in Instance, Crash(i)
  PROVE  NothingIsLeftBehind'
<1>1. UNCHANGED <<run, build, late>>
  BY DEF Crash
<1>2. \A g \in Try : fsm'[g] = Ended \/ fsm'[g] = fsm[g]
  BY DEF Crash
<1>3. Ended.pc = "end"
  BY DEF Ended, Idle
<1>4. \A g \in Try : Working(g)' => Working(g) /\ fsm'[g] = fsm[g]
  BY <1>2, <1>3 DEF Working
<1> QED
  BY <1>1, <1>4, SameItems

\* A build that is done makes no item ready whose turn is over.
LEMMA DoneTooLate ==
  ASSUME TypeOK, NEW g \in Try, NEW y \in Item, FinishBuild(g, y),
         NEW x \in Item, Remembered(x),
         \/ StageOf[x] \notin AsksForNeeds
         \/ \A s \in Needs[x] : y \notin s
         \/ ~(Position[StageOf[y]] <= Position[StageOf[x]])
  PROVE  Remembered(x)'
<1>1. \A h \in Try, z \in Item :
        /\ build[h][z] # "none" => build'[h][z] # "none"
        /\ build'[h][z] = "complete" => build[h][z] = "complete" \/ z = y
  BY DEF FinishBuild, TypeOK
<1>2. \A z \in Item : (Built(z) => Built(z)') /\ (Complete(z)' => Complete(z) \/ z = y)
  BY <1>1 DEF Built, Complete
<1>3. \A s \in Needs[x] : s \subseteq Item
  BY MigrationAssumption
<1>4. WasReady(x)' => WasReady(x)
  BY <1>2, <1>3 DEF WasReady
<1>5. UNCHANGED run
  BY DEF FinishBuild
<1> QED
  BY <1>2, <1>4, <1>5 DEF Remembered, Due

LEMMA PositionRank ==
  \A a, b \in BuildStage : Rank[a] < Rank[b] =>
    a # "comparisons_only" /\ (b # "comparisons_only" => ~(Position[b] <= Position[a]))
  BY DEF Rank, Position, BuildStage

LEMMA EarlierStays ==
  ASSUME TypeOK, NEW g \in Try, NEW y \in Item, FinishBuild(g, y),
         OnRoute(StageOf[y]), NothingLeftBefore(StageOf[y])
  PROVE  NothingLeftBefore(StageOf[y])'
<1>1. StageOf[y] \in BuildStage /\ StageOf[y] # "done" /\ UNCHANGED run
  BY MigrationAssumption DEF BuildStage, FinishBuild
<1> SUFFICES ASSUME NEW x \in Item, Rank[StageOf[x]] < Rank[StageOf[y]]
             PROVE  Remembered(x)'
  BY <1>1 DEF NothingLeftBefore
<1>2. StageOf[x] \in BuildStage /\ Remembered(x)
  BY MigrationAssumption DEF NothingLeftBefore
<1>3. CASE StageOf[y] = "comparisons_only"
  <2>1. run.changelogOnly
    BY <1>3 DEF OnRoute
  <2>2. ~(Due(x))'
    BY <1>1, <1>2, <2>1, PositionRank DEF Due
  <2> QED
    BY <2>2 DEF Remembered
<1>4. CASE StageOf[y] # "comparisons_only"
  BY <1>1, <1>2, <1>4, PositionRank, DoneTooLate
<1> QED
  BY <1>3, <1>4

LEMMA FinishBuildLeaves ==
  ASSUME TypeOK, Promise, NothingIsLeftBehind, NEW g \in Try, NEW y \in Item, FinishBuild(g, y)
  PROVE  NothingIsLeftBehind'
<1> SUFFICES ASSUME ~late PROVE NothingIsLeftBehind'
  BY DEF FinishBuild, NothingIsLeftBehind
<1>1. UNCHANGED <<run, fsm, late>> /\ Queued # {} /\ <<g, y>> \in Queued
  BY DEF FinishBuild, Queued
<1>2. \A s : OnRoute(s)' <=> OnRoute(s)
  BY <1>1 DEF OnRoute
<1>3. CASE run.status \in Settled
  <2>1. run.status \notin Unfinished /\ run.status # "complete"
    BY <1>1, <1>3 DEF Settled, Unfinished, Promise, BuildsInOrder, SettledHasNoBuilds
  <2>2. ASSUME NEW h \in Try, Working(h)' PROVE LeavesNothing(h)'
    <3>1. Working(h) /\ fsm'[h] = fsm[h]
      BY <1>1, <2>2 DEF Working
    <3>2. fsm[h].pc \in Last /\ LeavesNothing(h) /\ InOrder(h)
      BY <2>1, <3>1, Mover, Knows
    <3>3. fsm[h].goal # "done"
      BY <1>1, <3>2 DEF InOrder, Last
    <3> QED
      BY <1>2, <3>1, <3>2, <3>3 DEF LeavesNothing, Last
  <2> QED
    BY <1>1, <2>1, <2>2 DEF NothingIsLeftBehind, NothingIsForgotten
<1>4. CASE run.status \in Unfinished
  <2>1. /\ run.stage \in {StageOf[y], "cancelling"} /\ StageOf[y] \in BuildStage
        /\ OnRoute(run.stage)
        /\ run.stage # "cancelling" => NothingLeftBefore(run.stage)
    BY <1>1, <1>4, MigrationAssumption
    DEF Promise, BuildsInOrder, StagesDoNotOverlap, NothingIsLeftBehind
  <2>2. run.stage # "cancelling" => NothingLeftBefore(StageOf[y])'
    BY <2>1, EarlierStays
  <2>3. (run.stage # "cancelling" => NothingLeftBefore(run.stage))'
    BY <1>1, <2>1, <2>2 DEF NothingLeftBefore
  <2>4. ASSUME NEW h \in Try, Working(h)' PROVE LeavesNothing(h)'
    <3> DEFINE f == fsm[h]
    <3>1. Working(h) /\ LeavesNothing(h) /\ InOrder(h) /\ fsm'[h] = fsm[h]
      BY <1>1, <2>4, Knows DEF Working
    <3>2. f.pc \in {"verify", "start"} /\ f.stage # "cancelling" => NothingLeftBefore(f.stage)'
      <4>1. f.pc \in {"verify", "start"} /\ f.stage # "cancelling" => f.stage = run.stage
        BY <1>1, <3>1 DEF InOrder
      <4> QED
        BY <1>1, <2>1, <2>2, <4>1
    <3>3. \A x \in Item : StageOf[x] = "rebuild_relaxed_builds" /\ Remembered(x) => Remembered(x)'
      BY DoneTooLate DEF AsksForNeeds, InRounds
    <3>4. ASSUME f.pc \in {"create", "wait"}, f.stage \notin InRounds,
                 NEW x \in Part(f), Remembered(x)
          PROVE  Remembered(x)'
      <4>1. x \in Item /\ StageOf[x] = f.stage /\ f.stage = run.stage
        BY <3>1, <3>4 DEF Part, InOrder
      <4>2. CASE f.stage \notin AsksForNeeds
        BY <3>4, <4>1, <4>2, DoneTooLate
      <4>3. CASE f.stage = "comparisons_other"
        BY <2>1, <3>4, <4>1, <4>3, NeedsAssumption, DoneTooLate
      <4> QED
        BY <3>4, <4>2, <4>3 DEF AsksForNeeds
    <3>5. \A x : x \in Part(f) => x \in Item
      BY DEF Part
    <3>6. /\ f.pc = "finish" => f.goal = "cancelling"
          /\ f.pc \in {"drop", "settle"} => f.goal = "failed"
      BY <1>1, <3>1 DEF InOrder
    <3> QED
      BY <1>1, <1>2, <3>1, <3>2, <3>3, <3>4, <3>5, <3>6 DEF LeavesNothing
  <2>5. OnRoute(run.stage)'
    BY <1>1, <2>1 DEF OnRoute
  <2>6. NothingIsForgotten'
    BY <1>1, <1>4 DEF NothingIsForgotten, Unfinished
  <2> QED
    BY <2>3, <2>4, <2>5, <2>6 DEF NothingIsLeftBehind
<1>5. run.status \in Settled \cup Unfinished
  BY DEF TypeOK, Run
<1> QED
  BY <1>3, <1>4, <1>5

-------------------------------------------------------------------------------
(***************************************************************************)
(* The invariant.                                                          *)
(***************************************************************************)
LEMMA LeavesInit == Init => NothingIsLeftBehind
<1> SUFFICES ASSUME Init PROVE NothingIsLeftBehind
  OBVIOUS
<1>1. PICK i \in Instance, only \in BOOLEAN :
        run = [status |-> "running", stage |-> "starting", changelogOnly |-> only,
               owner |-> i, retries |-> 0, begun |-> FALSE, stale |-> FALSE]
  BY DEF Init
<1>2. run.status = "running" /\ run.stage = "starting"
  BY <1>1
<1>3. OnRoute("starting") /\ NothingLeftBefore("starting")
  <2>1. \A s \in BuildStage : ~(Rank[s] < Rank["starting"])
    BY DEF Rank, BuildStage
  <2> QED
    BY <2>1, MigrationAssumption DEF OnRoute, NothingLeftBefore
<1>4. ASSUME NEW g \in Try, Working(g) PROVE LeavesNothing(g)
  <2>1. fsm[g].pc = "verify" /\ fsm[g].stage = "starting"
    BY <1>4 DEF Init, Working, Started, Idle
  <2> QED
    BY <1>3, <2>1 DEF LeavesNothing
<1> QED
  BY <1>2, <1>3, <1>4 DEF NothingIsLeftBehind, NothingIsForgotten

LEMMA LeavesNext ==
  ASSUME TypeOK, Promise, NothingIsLeftBehind, [Next]_vars
  PROVE  NothingIsLeftBehind'
<1>1. ASSUME NEW g \in Try, Step(g) PROVE NothingIsLeftBehind'
  BY <1>1, VerifyOwnershipLeaves, HaltLeaves, HandleStageStartLeaves, WorkLeaves, RecoverLeaves,
     SelectItemsLeaves, CreateBuildLeaves, WaitForBuildsLeaves, CancelBuildsLeaves,
     HandleStageFinishLeaves, DropTablesLeaves, SettleLeaves, FailureLeaves DEF Step
<1>2. ASSUME NEW g \in Try, Failure(g) PROVE NothingIsLeftBehind'
  <2>1. CASE KeepAliveStops(g)
    BY <2>1 DEF KeepAliveStops, NothingIsLeftBehind
  <2> QED
    BY <1>2, <2>1, CreateUnansweredLeaves, AnswerLostLeaves, FailureLeaves DEF Failure
<1>3. ASSUME NEW g \in Try, KeepAlive(g) PROVE NothingIsLeftBehind'
  BY <1>3, KeepAliveLeaves
<1>4. ASSUME NEW g \in Try, NEW x \in Item, FinishBuild(g, x) PROVE NothingIsLeftBehind'
  BY <1>4, FinishBuildLeaves
<1>5. ASSUME NEW i \in Instance, RestartMigrations(i) PROVE NothingIsLeftBehind'
  BY <1>5, RestartMigrationsLeaves
<1>6. ASSUME NEW i \in Instance, Crash(i) PROVE NothingIsLeftBehind'
  BY <1>6, CrashLeaves
<1>7. CASE BecomeStale
  BY <1>7, BecomeStaleLeaves
<1>8. CASE CancelRunningMigrations
  BY <1>8, CancelRunningMigrationsLeaves
<1>9. CASE UNCHANGED vars
  BY <1>9, SameItems DEF vars, Working
<1> QED
  BY <1>1, <1>2, <1>3, <1>4, <1>5, <1>6, <1>7, <1>8, <1>9 DEF Next

\* A stage is passed only when every item that was ready in it has a build, whichever
\* goroutine created it, and the row is never ahead of that: what a take-over relies on
\* when it begins at the stage in the row (restartMigrations, processStage).
THEOREM StagesLeaveNothing == Spec => []NothingIsLeftBehind
<1>1. Init => NothingIsLeftBehind
  BY LeavesInit
<1>2. MigrationInvariant /\ NothingIsLeftBehind /\ [Next]_vars => NothingIsLeftBehind'
  BY LeavesNext, InvariantParts
<1> QED
  BY <1>1, <1>2, Invariance, PTL DEF Spec

\* A migration that is complete has built all versions and comparisons whose turn came,
\* whatever crashes, lost answers and take-overs fell between the query of a stage and
\* its last build (the queries of the stages, addTaskToRebuild, handleComplete).
THEOREM NoItemIsForgotten == Spec => []NothingIsForgotten
<1>1. NothingIsLeftBehind => NothingIsForgotten
  BY DEF NothingIsLeftBehind, NothingIsForgotten
<1> QED
  BY <1>1, StagesLeaveNothing, PTL
===============================================================================
