----------------------- MODULE VersionPublishingProofs -----------------------
(***************************************************************************)
(* The inductive invariant of VersionPublishing, for any number of         *)
(* versions, publications, status changes, deletions and cleanups: a       *)
(* revision holds one build, no previous version and no release has        *)
(* errors, and every live version is listed, while no handler relies on    *)
(* checks that another change has overtaken.                               *)
(***************************************************************************)
EXTENDS VersionPublishing, FiniteSetTheorems, WellFoundedInduction, TLAPS

-----------------------------------------------------------------------------
(***************************************************************************)
(* Sequences of revisions.                                                 *)
(***************************************************************************)
LEMMA MaxIsMember ==
  ASSUME NEW n \in Nat, NEW S \in SUBSET (1..n), S # {}
  PROVE  Max(S) \in S
<1> DEFINE T == {n - x : x \in S}
<1>0. \A x \in S : x \in Nat /\ n - x \in Nat
  OBVIOUS
<1>1. T \subseteq Nat /\ T # {}
  BY <1>0
<1>2. PICK m \in T : \A k \in T : << k, m >> \notin OpToRel(<, Nat)
  BY <1>1, WFMin, NatLessThanWellFounded, Zenon
<1>3. \A k \in T : ~(k < m)
  BY <1>1, <1>2, Zenon DEF OpToRel
<1>4. PICK x \in S : m = n - x
  BY <1>2
<1>5. ASSUME NEW y \in S PROVE x >= y
  <2>1. n - y \in T
    OBVIOUS
  <2>2. ~(n - y < n - x)
    BY <1>3, <1>4, <2>1
  <2> QED
    BY <2>2
<1> QED
  BY <1>5 DEF Max

LEMMA RowsAreRevisions ==
  ASSUME TypeOK, NEW v \in Version
  PROVE  /\ published[v] \in Seq(Revision)
         /\ Len(published[v]) \in Nat
         /\ DOMAIN published[v] = 1..Len(published[v])
         /\ \A r \in 1..Len(published[v]) : published[v][r] \in Revision
BY DEF TypeOK

LEMMA GetVersionType ==
  ASSUME TypeOK, NEW v \in Version
  PROVE  /\ LiveRevisions(v) \subseteq 1..Len(published[v])
         /\ GetVersion(v) \in Nat
         /\ LiveRevisions(v) = {} => GetVersion(v) = 0
         /\ LiveRevisions(v) # {} => GetVersion(v) \in LiveRevisions(v)
<1>1. LiveRevisions(v) \in SUBSET (1..Len(published[v])) /\ Len(published[v]) \in Nat
  BY RowsAreRevisions DEF LiveRevisions
<1>2. LiveRevisions(v) # {} => Max(LiveRevisions(v)) \in LiveRevisions(v)
  BY <1>1, MaxIsMember
<1> QED
  BY <1>1, <1>2 DEF GetVersion

LEMMA ReplacedElement ==
  ASSUME NEW S, NEW s \in Seq(S), NEW n, NEW x \in S
  PROVE  [s EXCEPT ![n] = x] \in Seq(S)
<1>1. Len(s) \in Nat /\ s \in [1..Len(s) -> S]
  OBVIOUS
<1>2. [s EXCEPT ![n] = x] \in [1..Len(s) -> S]
  BY <1>1
<1> QED
  BY <1>1, <1>2

LEMMA MappedSequence ==
  ASSUME NEW S, NEW T, NEW s \in Seq(S), NEW f, f = [r \in DOMAIN s |-> f[r]],
         \A r \in 1..Len(s) : f[r] \in T
  PROVE  f \in Seq(T) /\ Len(f) = Len(s)
<1>1. Len(s) \in Nat /\ DOMAIN s = 1..Len(s)
  OBVIOUS
<1>2. f \in [1..Len(s) -> T]
  BY <1>1
<1> QED
  BY <1>1, <1>2

(***************************************************************************)
(* A row keeps its type when one of its columns changes.                   *)
(***************************************************************************)
LEMMA RowUpdates ==
  ASSUME NEW row \in Revision
  PROVE  /\ \A s \in Status : [row EXCEPT !.status = s] \in Revision
         /\ \A d \in BOOLEAN : [row EXCEPT !.deleted = d] \in Revision
         /\ [row EXCEPT !.previous = NoVersion] \in Revision
         /\ \A k \in Version \X Nat :
              [row EXCEPT !.compared = @ \cup {k}] \in Revision
         /\ \A keys \in SUBSET (Version \X Nat) :
              [row EXCEPT !.changelogErrors = keys] \in Revision
BY DEF Revision

-----------------------------------------------------------------------------
(***************************************************************************)
(* Type correctness, one lemma per action.                                 *)
(***************************************************************************)
LEMMA TypeInit == Init => TypeOK
<1> SUFFICES ASSUME Init PROVE TypeOK
  OBVIOUS
<1>1. build \in [Build -> BuildState]
  <2>1. NotRequested \in BuildState
    BY DEF NotRequested, BuildState, BuildPhase, Status
  <2> QED
    BY <2>1 DEF Init
<1>2. admin \in [Admin -> AdminState]
  <2>1. Idle \in AdminState
    BY DEF Idle, AdminState, Status
  <2> QED
    BY <2>1 DEF Init
<1>3. published \in [Version -> Seq(Revision)]
  BY DEF Init
<1>4. changes \in 0..MaxChanges
  BY VersionAssumption DEF Init
<1>5. outdated \in BOOLEAN
  BY DEF Init
<1> QED
  BY <1>1, <1>2, <1>3, <1>4, <1>5 DEF TypeOK

LEMMA TypePublishVersion ==
  ASSUME TypeOK, NEW b \in Build, NEW v \in Version, NEW s \in Status,
         NEW p \in Version \cup {NoVersion}, PublishVersion(b, v, s, p)
  PROVE  TypeOK'
<1>1. build' \in [Build -> BuildState]
  BY DEF TypeOK, PublishVersion, NotRequested, BuildState, BuildPhase
<1> QED
  BY <1>1 DEF TypeOK, PublishVersion

LEMMA TypeBuildVersion ==
  ASSUME TypeOK, NEW b \in Build, NEW e \in BOOLEAN, NEW x \in BOOLEAN,
         BuildVersion(b, e, x)
  PROVE  TypeOK'
<1>1. build[b] \in BuildState
  BY DEF TypeOK
<1>2. (IF build[b].previous = NoVersion THEN 0 ELSE GetVersion(build[b].previous)) \in Nat
  BY <1>1, GetVersionType DEF BuildState
<1>3. build' \in [Build -> BuildState]
  BY <1>1, <1>2 DEF TypeOK, BuildVersion, BuildState, BuildPhase
<1> QED
  BY <1>3 DEF TypeOK, BuildVersion

LEMMA TypeCheckResult ==
  ASSUME TypeOK, CheckedResultStaysValid, NEW b \in Build, CheckResult(b)
  PROVE  TypeOK'
<1>1. build[b] \in BuildState /\ build[b].version \in Version
  BY DEF TypeOK, CheckResult, CheckedResultStaysValid
<1>2. GetVersionIncludingDeleted(build[b].version) + 1 \in Nat
  BY <1>1, RowsAreRevisions DEF GetVersionIncludingDeleted
<1>3. build' \in [Build -> BuildState]
  BY <1>1, <1>2 DEF TypeOK, CheckResult, BuildState, BuildPhase
<1> QED
  BY <1>3 DEF TypeOK, CheckResult

LEMMA TypeRefuseResult ==
  ASSUME TypeOK, NEW b \in Build, RefuseResult(b)
  PROVE  TypeOK'
<1>1. [build[b] EXCEPT !.phase = "refused"] \in BuildState
  <2>1. build[b] \in BuildState
    BY DEF TypeOK
  <2> QED
    BY <2>1 DEF BuildState, BuildPhase
<1>2. build' \in [Build -> BuildState]
  BY <1>1 DEF TypeOK, RefuseResult
<1> QED
  BY <1>2 DEF TypeOK, RefuseResult

LEMMA OvertakenTypes ==
  ASSUME TypeOK, NEW v \in Version, NEW others
  PROVE  /\ OvertakeBuilds(v, others) \in [Build -> BuildState]
         /\ OvertakeAdmins \in [Admin -> AdminState]
<1>1. ASSUME NEW b \in Build PROVE OvertakeBuilds(v, others)[b] \in BuildState
  <2> DEFINE changed == build[b].changed \cup ({v} \ {build[b].version})
             overtaken == build[b].phase = "checked"
  <2>1. build[b] \in BuildState
    BY DEF TypeOK
  <2>2. changed \in SUBSET Version /\ overtaken \in BOOLEAN
    BY <2>1 DEF BuildState
  <2>3. OvertakeBuilds(v, others)[b]
          \in {build[b], [build[b] EXCEPT !.changed = changed, !.overtaken = overtaken]}
    BY DEF OvertakeBuilds
  <2> HIDE DEF changed, overtaken
  <2>4. [build[b] EXCEPT !.changed = changed, !.overtaken = overtaken] \in BuildState
    BY <2>1, <2>2 DEF BuildState
  <2> QED
    BY <2>1, <2>3, <2>4
<1>2. ASSUME NEW a \in Admin PROVE OvertakeAdmins[a] \in AdminState
  BY DEF TypeOK, OvertakeAdmins, AdminState
<1> QED
  BY <1>1, <1>2 DEF OvertakeBuilds, OvertakeAdmins

(***************************************************************************)
(* What CreateVersionWithData writes: the next revision, or an old one     *)
(* again when its checks have been overtaken.                              *)
(***************************************************************************)
LEMMA InsertOrUpdateType ==
  ASSUME TypeOK, CheckedResultStaysValid, NEW b \in Build, build[b].version \in Version
  PROVE  InsertOrUpdate(published[build[b].version], b) \in Seq(Revision)
<1> DEFINE c == build[b]
           revisions == published[c.version]
           stored == c.revision \in DOMAIN revisions
           former == IF stored THEN revisions[c.revision]
                     ELSE [builds |-> {}, compared |-> {}, changelogErrors |-> {}]
           key == {<< c.previous, c.against >>}
           newCompared == IF c.against = 0 THEN {} ELSE key
           newErrors == IF c.changelogErrors THEN key ELSE {}
           row == [ status |-> c.status, previous |-> c.previous, errors |-> c.errors,
                    deleted |-> FALSE, builds |-> {b} \cup former.builds,
                    compared |-> former.compared \cup newCompared,
                    changelogErrors |-> (former.changelogErrors \ key) \cup newErrors,
                    changed |-> c.changed ]
<1>1. c \in BuildState
  BY DEF TypeOK
<1>2. /\ revisions \in Seq(Revision) /\ Len(revisions) \in Nat
      /\ DOMAIN revisions = 1..Len(revisions)
      /\ \A r \in DOMAIN revisions : revisions[r] \in Revision
  BY RowsAreRevisions
<1>3. /\ former.builds \in SUBSET Build
      /\ former.compared \in SUBSET (Version \X Nat)
      /\ former.changelogErrors \in SUBSET (Version \X Nat)
  BY <1>2 DEF Revision
<1>4. newCompared \in SUBSET (Version \X Nat) /\ newErrors \in SUBSET (Version \X Nat)
  <2>1. c.against # 0 \/ c.changelogErrors => c.previous \in Version
    BY <1>1 DEF CheckedResultStaysValid, BuildState
  <2> QED
    BY <1>1, <2>1 DEF BuildState
<1>5. row \in Revision
  <2>1. former.compared \cup newCompared \in SUBSET (Version \X Nat)
    BY <1>3, <1>4
  <2>2. (former.changelogErrors \ key) \cup newErrors \in SUBSET (Version \X Nat)
    BY <1>3, <1>4
  <2> HIDE DEF former, newCompared, newErrors, key
  <2> QED
    BY <1>1, <1>3, <2>1, <2>2 DEF Revision, BuildState
<1>6. InsertOrUpdate(revisions, b)
        = IF stored THEN [revisions EXCEPT ![c.revision] = row] ELSE Append(revisions, row)
  BY DEF InsertOrUpdate
<1> HIDE DEF row
<1>7. stored => [revisions EXCEPT ![c.revision] = row] \in Seq(Revision)
  BY <1>2, <1>5
<1>8. Append(revisions, row) \in Seq(Revision)
  BY <1>2, <1>5
<1> QED
  BY <1>6, <1>7, <1>8

LEMMA TypeCreateVersionWithData ==
  ASSUME TypeOK, CheckedResultStaysValid, NEW b \in Build, CreateVersionWithData(b)
  PROVE  TypeOK'
<1>1. build[b].version \in Version
  BY DEF CreateVersionWithData, CheckedResultStaysValid
<1>2. published' \in [Version -> Seq(Revision)]
  BY <1>1, InsertOrUpdateType DEF CreateVersionWithData, TypeOK
<1>3. build' \in [Build -> BuildState]
  <2> DEFINE overtaken == OvertakeBuilds(build[b].version, Build \ {b})
  <2>1. overtaken \in [Build -> BuildState]
    BY <1>1, OvertakenTypes
  <2>2. build' = [overtaken EXCEPT ![b].phase = "committed"]
    BY DEF CreateVersionWithData
  <2> HIDE DEF overtaken
  <2> QED
    BY <2>1, <2>2 DEF BuildState, BuildPhase
<1>4. admin' \in [Admin -> AdminState]
  BY <1>1, OvertakenTypes DEF CreateVersionWithData
<1>5. outdated' \in BOOLEAN
  BY DEF CreateVersionWithData, TypeOK, BuildState
<1> QED
  BY <1>2, <1>3, <1>4, <1>5 DEF TypeOK, CreateVersionWithData

LEMMA LatestIsRevision ==
  ASSUME TypeOK, NEW v \in Version, published[v] # << >>
  PROVE  Len(published[v]) \in DOMAIN published[v] /\ Latest(v) \in Revision
BY RowsAreRevisions DEF Latest

LEMMA OrderChangelogsType ==
  ASSUME TypeOK, NEW v \in Version, NEW r \in Nat,
         NEW dependents \in SUBSET GetVersionsByPreviousVersion(v)
  PROVE  OrderChangelogs(dependents, v, r) \in [Version -> Seq(Revision)]
<1>1. ASSUME NEW w \in Version
      PROVE  OrderChangelogs(dependents, v, r)[w] \in Seq(Revision)
  <2> DEFINE n == Len(published[w])
             row == [published[w][n] EXCEPT !.compared = @ \cup {<< v, r >>}]
  <2>1. published[w] \in Seq(Revision)
    BY RowsAreRevisions
  <2>2. w \in dependents => row \in Revision
    BY LatestIsRevision, RowUpdates DEF GetVersionsByPreviousVersion, Listed, Latest
  <2>3. w \in dependents => [published[w] EXCEPT ![n] = row] \in Seq(Revision)
    BY <2>1, <2>2, ReplacedElement
  <2>4. OrderChangelogs(dependents, v, r)[w]
          = IF w \in dependents THEN [published[w] EXCEPT ![n] = row] ELSE published[w]
    BY DEF OrderChangelogs
  <2> QED
    BY <2>1, <2>3, <2>4
<1> QED
  BY <1>1 DEF OrderChangelogs

LEMMA TypeReCalculateChangelogs ==
  ASSUME TypeOK, CheckedResultStaysValid, NEW b \in Build, ReCalculateChangelogs(b)
  PROVE  TypeOK'
<1>1. build[b] \in BuildState /\ build[b].version \in Version /\ build[b].revision \in Nat
  BY DEF ReCalculateChangelogs, CheckedResultStaysValid, TypeOK, BuildState
<1>2. published' \in [Version -> Seq(Revision)]
  BY <1>1, OrderChangelogsType DEF ReCalculateChangelogs
<1>3. \E p \in {"done", "failed"} : build' = [build EXCEPT ![b].phase = p]
  BY DEF ReCalculateChangelogs
<1>4. build' \in [Build -> BuildState]
  <2>1. PICK p \in {"done", "failed"} : build' = [build EXCEPT ![b].phase = p]
    BY <1>3
  <2>2. [build[b] EXCEPT !.phase = p] \in BuildState
    BY <1>1 DEF BuildState, BuildPhase
  <2> QED
    BY <2>1, <2>2 DEF TypeOK
<1> QED
  BY <1>2, <1>4 DEF TypeOK, ReCalculateChangelogs

LEMMA TypeCheckPatch ==
  ASSUME TypeOK, NEW a \in Admin, NEW v \in Version, NEW s \in Status, CheckPatch(a, v, s)
  PROVE  TypeOK'
<1>1. admin' \in [Admin -> AdminState]
  BY DEF TypeOK, CheckPatch, AdminState
<1>2. changes' \in 0..MaxChanges
  BY VersionAssumption DEF TypeOK, CheckPatch
<1> QED
  BY <1>1, <1>2 DEF TypeOK, CheckPatch

LEMMA IdleType == Idle \in AdminState
BY DEF Idle, AdminState, Status

LEMMA TypePatchVersion ==
  ASSUME TypeOK, CheckedPatchStaysValid, NEW a \in Admin, PatchVersion(a)
  PROVE  TypeOK'
<1> DEFINE v == admin[a].version
           r == GetVersion(v)
<1>1. admin[a] \in AdminState /\ v \in Version
  BY DEF TypeOK, PatchVersion, CheckedPatchStaysValid
<1>2. CASE r = 0
  BY <1>2, IdleType DEF PatchVersion, TypeOK
<1>3. CASE r # 0
  <2>1. r \in DOMAIN published[v] /\ published[v][r] \in Revision
    BY <1>1, <1>3, GetVersionType, RowsAreRevisions DEF LiveRevisions
  <2>2. [published[v][r] EXCEPT !.status = admin[a].status] \in Revision
    BY <1>1, <2>1, RowUpdates DEF AdminState
  <2>3. [published[v] EXCEPT ![r].status = admin[a].status] \in Seq(Revision)
    <3>1. published[v] \in Seq(Revision)
      BY <1>1, RowsAreRevisions
    <3> QED
      BY <2>1, <2>2, <3>1
  <2>4. published' = [published EXCEPT ![v] = [published[v] EXCEPT ![r].status = admin[a].status]]
    BY <1>3 DEF PatchVersion
  <2>5. published' \in [Version -> Seq(Revision)]
    BY <1>1, <2>3, <2>4 DEF TypeOK
  <2>6. build' \in [Build -> BuildState] /\ admin' \in [Admin -> AdminState]
    BY <1>1, <1>3, OvertakenTypes, IdleType DEF PatchVersion
  <2>7. outdated' \in BOOLEAN
    BY <1>1, <1>3 DEF PatchVersion, TypeOK, AdminState
  <2> QED
    BY <2>5, <2>6, <2>7 DEF TypeOK, PatchVersion
<1> QED
  BY <1>2, <1>3

LEMMA MarkedRows ==
  ASSUME TypeOK, NEW v \in Version, NEW gone
  PROVE  /\ MarkDeleted(v, gone) \in [Version -> Seq(Revision)]
         /\ \A w \in Version : /\ Len(MarkDeleted(v, gone)[w]) = Len(published[w])
                               /\ w # v => MarkDeleted(v, gone)[w] = published[w]
         /\ \A r \in 1..Len(published[v]) :
              MarkDeleted(v, gone)[v][r]
                = IF r \in gone THEN [published[v][r] EXCEPT !.deleted = TRUE]
                                ELSE published[v][r]
<1> DEFINE marked == [r \in DOMAIN published[v] |->
                        IF r \in gone THEN [published[v][r] EXCEPT !.deleted = TRUE]
                                      ELSE published[v][r]]
<1>1. /\ published[v] \in Seq(Revision)
      /\ DOMAIN published[v] = 1..Len(published[v])
      /\ \A r \in 1..Len(published[v]) : published[v][r] \in Revision
  BY RowsAreRevisions
<1>2. MarkDeleted(v, gone) = [published EXCEPT ![v] = marked]
  BY DEF MarkDeleted
<1>3. \A r \in 1..Len(published[v]) :
        marked[r] = IF r \in gone THEN [published[v][r] EXCEPT !.deleted = TRUE]
                                  ELSE published[v][r]
  BY <1>1
<1>4. \A r \in 1..Len(published[v]) : marked[r] \in Revision
  BY <1>1, <1>3, RowUpdates
<1>5. marked = [r \in DOMAIN published[v] |-> marked[r]]
  OBVIOUS
<1> HIDE DEF marked
<1>6. marked \in Seq(Revision) /\ Len(marked) = Len(published[v])
  BY <1>1, <1>4, <1>5, MappedSequence
<1> QED
  BY <1>2, <1>3, <1>6 DEF TypeOK

LEMMA ClearedRows ==
  ASSUME NEW rows \in [Version -> Seq(Revision)], NEW v \in Version
  PROVE  /\ ClearPreviousVersion(rows, v) \in [Version -> Seq(Revision)]
         /\ \A w \in Version :
              /\ Len(ClearPreviousVersion(rows, v)[w]) = Len(rows[w])
              /\ \A r \in 1..Len(rows[w]) :
                   ClearPreviousVersion(rows, v)[w][r]
                     \in {rows[w][r], [rows[w][r] EXCEPT !.previous = NoVersion]}
<1>1. ASSUME NEW w \in Version
      PROVE  /\ ClearPreviousVersion(rows, v)[w] \in Seq(Revision)
             /\ Len(ClearPreviousVersion(rows, v)[w]) = Len(rows[w])
             /\ \A r \in 1..Len(rows[w]) :
                  ClearPreviousVersion(rows, v)[w][r]
                    \in {rows[w][r], [rows[w][r] EXCEPT !.previous = NoVersion]}
  <2> DEFINE cleared == [r \in DOMAIN rows[w] |->
                           IF rows[w][r].previous = v
                           THEN [rows[w][r] EXCEPT !.previous = NoVersion]
                           ELSE rows[w][r]]
  <2>1. /\ rows[w] \in Seq(Revision) /\ DOMAIN rows[w] = 1..Len(rows[w])
        /\ \A r \in 1..Len(rows[w]) : rows[w][r] \in Revision
    OBVIOUS
  <2>2. \A r \in 1..Len(rows[w]) :
          cleared[r] \in {rows[w][r], [rows[w][r] EXCEPT !.previous = NoVersion]}
    BY <2>1
  <2>3. cleared = [r \in DOMAIN rows[w] |-> cleared[r]]
    OBVIOUS
  <2>4. ClearPreviousVersion(rows, v)[w] = cleared
    BY DEF ClearPreviousVersion
  <2> HIDE DEF cleared
  <2>5. \A r \in 1..Len(rows[w]) : cleared[r] \in Revision
    BY <2>1, <2>2, RowUpdates
  <2>6. cleared \in Seq(Revision) /\ Len(cleared) = Len(rows[w])
    BY <2>1, <2>3, <2>5, MappedSequence
  <2> QED
    BY <2>2, <2>4, <2>6
<1> QED
  BY <1>1 DEF ClearPreviousVersion

-----------------------------------------------------------------------------
(***************************************************************************)
(* Steps that add no revision, no error and no dependence: they hide       *)
(* revisions, clear previous versions, and leave errors and builds alone.  *)
(***************************************************************************)
Eroded(w, r) ==
  /\ published'[w][r].errors = published[w][r].errors
  /\ published'[w][r].builds = published[w][r].builds
  /\ published'[w][r].changed = published[w][r].changed
  /\ published'[w][r].previous \in {published[w][r].previous, NoVersion}
  /\ published[w][r].deleted => published'[w][r].deleted

ErodedRows ==
  \A w \in Version :
    /\ Len(published'[w]) = Len(published[w])
    /\ \A r \in 1..Len(published[w]) : Eroded(w, r)

NoDependents(v) ==
  \A w \in Version : \A r \in LiveRevisions(w) : published[w][r].previous # v

LEMMA Dependents ==
  ASSUME NEW v
  PROVE  /\ GetVersionRevisionsByPreviousVersion(v) = {} <=> NoDependents(v)
         /\ GetVersionRevisionsByPreviousVersion(v)' = {} <=> NoDependents(v)'
<1>1. \A w \in Version : \A r \in LiveRevisions(w) :
        << w, r >> \in UNION {{u} \X LiveRevisions(u) : u \in Version}
  OBVIOUS
<1>2. \A w \in Version : \A r \in LiveRevisions(w)' :
        << w, r >> \in UNION {{u} \X LiveRevisions(u)' : u \in Version}
  OBVIOUS
<1>3. \A k \in UNION {{u} \X LiveRevisions(u) : u \in Version} :
        \E w \in Version : \E r \in LiveRevisions(w) : k = << w, r >>
  OBVIOUS
<1>4. \A k \in UNION {{u} \X LiveRevisions(u)' : u \in Version} :
        \E w \in Version : \E r \in LiveRevisions(w)' : k = << w, r >>
  OBVIOUS
<1>5. GetVersionRevisionsByPreviousVersion(v) = {} <=> NoDependents(v)
  <2> DEFINE all == UNION {{u} \X LiveRevisions(u) : u \in Version}
  <2>1. GetVersionRevisionsByPreviousVersion(v) = {}
          <=> \A k \in all : published[k[1]][k[2]].previous # v
    BY DEF GetVersionRevisionsByPreviousVersion
  <2>2. (\A k \in all : published[k[1]][k[2]].previous # v) => NoDependents(v)
    <3>1. ASSUME \A k \in all : published[k[1]][k[2]].previous # v,
                 NEW w \in Version, NEW r \in LiveRevisions(w)
          PROVE  published[w][r].previous # v
      <4>1. published[<< w, r >>[1]][<< w, r >>[2]].previous # v
        BY <1>1, <3>1
      <4> QED
        BY <4>1
    <3> QED
      BY <3>1 DEF NoDependents
  <2>3. NoDependents(v) => \A k \in all : published[k[1]][k[2]].previous # v
    BY <1>3 DEF NoDependents
  <2> QED
    BY <2>1, <2>2, <2>3
<1>6. GetVersionRevisionsByPreviousVersion(v)' = {} <=> NoDependents(v)'
  <2> DEFINE all == UNION {{u} \X LiveRevisions(u)' : u \in Version}
  <2>1. GetVersionRevisionsByPreviousVersion(v)' = {}
          <=> \A k \in all : published'[k[1]][k[2]].previous # v
    BY DEF GetVersionRevisionsByPreviousVersion
  <2>2. (\A k \in all : published'[k[1]][k[2]].previous # v) => NoDependents(v)'
    <3>1. ASSUME \A k \in all : published'[k[1]][k[2]].previous # v,
                 NEW w \in Version, NEW r \in LiveRevisions(w)'
          PROVE  published'[w][r].previous # v
      <4>1. published'[<< w, r >>[1]][<< w, r >>[2]].previous # v
        BY <1>2, <3>1
      <4> QED
        BY <4>1
    <3> QED
      BY <3>1 DEF NoDependents
  <2>3. NoDependents(v)' => \A k \in all : published'[k[1]][k[2]].previous # v
    BY <1>4 DEF NoDependents
  <2> QED
    BY <2>1, <2>2, <2>3
<1> QED
  BY <1>5, <1>6

LEMMA NextRowsAreRevisions ==
  ASSUME TypeOK', NEW v \in Version
  PROVE  /\ published'[v] \in Seq(Revision)
         /\ Len(published'[v]) \in Nat
         /\ DOMAIN published'[v] = 1..Len(published'[v])
         /\ \A r \in 1..Len(published'[v]) : published'[v][r] \in Revision
BY DEF TypeOK

LEMMA ErosionKeepsDependentsAway ==
  ASSUME TypeOK, TypeOK', ErodedRows, NEW v \in Version, NoDependents(v)
  PROVE  NoDependents(v)'
<1>1. ASSUME NEW w \in Version, NEW r \in LiveRevisions(w)'
      PROVE  published'[w][r].previous # v
  <2>1. r \in 1..Len(published[w]) /\ Eroded(w, r) /\ ~published'[w][r].deleted
    BY NextRowsAreRevisions DEF LiveRevisions, ErodedRows
  <2>2. r \in LiveRevisions(w)
    BY <2>1, RowsAreRevisions DEF LiveRevisions, Eroded
  <2>3. published[w][r].previous # v
    BY <2>2 DEF NoDependents
  <2> QED
    BY <2>1, <2>3, VersionAssumption DEF Eroded
<1> QED
  BY <1>1 DEF NoDependents

LEMMA ErosionKeepsGuarantees ==
  ASSUME TypeOK, TypeOK', ErodedRows, HandlersInTime' => HandlersInTime,
         RevisionHasOneBuild, PreviousVersionHasNoErrors
  PROVE  RevisionHasOneBuild' /\ PreviousVersionHasNoErrors'
<1>1. ASSUME HandlersInTime', NEW v \in Version, NEW r \in DOMAIN published'[v]
      PROVE  Cardinality(published'[v][r].builds) = 1
  <2>1. r \in DOMAIN published[v] /\ Eroded(v, r)
    BY NextRowsAreRevisions, RowsAreRevisions DEF ErodedRows
  <2> QED
    BY <1>1, <2>1 DEF RevisionHasOneBuild, Eroded
<1>2. ASSUME HandlersInTime', NEW v \in Version, published'[v] # << >>,
             published'[v][Len(published'[v])].errors
      PROVE  GetVersionRevisionsByPreviousVersion(v)' = {}
  <2>1. Len(published'[v]) \in 1..Len(published'[v]) /\ Len(published'[v]) = Len(published[v])
    BY <1>2, NextRowsAreRevisions DEF ErodedRows
  <2>2. published[v] # << >> /\ published[v][Len(published[v])].errors
    BY <1>2, <2>1, RowsAreRevisions DEF ErodedRows, Eroded
  <2>3. NoDependents(v)
    BY <1>2, <2>2, Dependents DEF PreviousVersionHasNoErrors, LatestHasErrors, Latest
  <2> QED
    BY <2>3, ErosionKeepsDependentsAway, Dependents
<1> QED
  BY <1>1, <1>2 DEF RevisionHasOneBuild, PreviousVersionHasNoErrors, LatestHasErrors, Latest

-----------------------------------------------------------------------------
(***************************************************************************)
(* Steps that leave all revisions alone.                                   *)
(***************************************************************************)
Guarantees ==
  /\ LiveVersionIsListed
  /\ RevisionHasOneBuild
  /\ PreviousVersionHasNoErrors
  /\ ReleaseHasNoErrors

LEMMA SameRows ==
  ASSUME Guarantees, UNCHANGED << published, outdated >>
  PROVE  Guarantees'
<1>1. LiveVersionIsListed'
  BY DEF Guarantees, LiveVersionIsListed, HandlersInTime, LiveRevisions, Listed
<1>2. RevisionHasOneBuild'
  BY DEF Guarantees, RevisionHasOneBuild, HandlersInTime
<1>3. PreviousVersionHasNoErrors'
  BY DEF Guarantees, PreviousVersionHasNoErrors, HandlersInTime, LatestHasErrors, Latest,
     GetVersionRevisionsByPreviousVersion, LiveRevisions
<1>4. ReleaseHasNoErrors'
  BY DEF Guarantees, ReleaseHasNoErrors, HandlersInTime, LiveRevisions
<1> QED
  BY <1>1, <1>2, <1>3, <1>4 DEF Guarantees

(***************************************************************************)
(* The part of CheckedResultStaysValid about one build.                    *)
(***************************************************************************)
ResultIsValid(b) ==
  /\ build[b].phase # "none" =>
       build[b].version \in Version /\ build[b].previous # build[b].version
  /\ build[b].changelogErrors => build[b].against # 0
  /\ build[b].against # 0 => build[b].previous # NoVersion
  /\ build[b].phase = "checked" /\ build[b].errors => build[b].status = "draft"
  /\ build[b].phase = "checked" /\ ~build[b].overtaken =>
       /\ build[b].revision = Len(published[build[b].version]) + 1
       /\ build[b].errors => NoDependents(build[b].version)
       /\ build[b].previous # NoVersion =>
            ~LatestHasErrors(build[b].previous)

LEMMA ValidResults ==
  /\ CheckedResultStaysValid <=> \A b \in Build : ResultIsValid(b)
  /\ CheckedResultStaysValid' <=> \A b \in Build : ResultIsValid(b)'
<1>1. \A v : GetVersionRevisionsByPreviousVersion(v) = {} <=> NoDependents(v)
  BY Dependents
<1>2. ASSUME NEW b \in Build
      PROVE  GetVersionRevisionsByPreviousVersion(build[b].version)' = {}
               <=> NoDependents(build[b].version)'
  <2>1. \A v : GetVersionRevisionsByPreviousVersion(v)' = {} <=> NoDependents(v)'
    BY Dependents
  <2> QED
    BY <2>1 DEF NoDependents, GetVersionRevisionsByPreviousVersion, LiveRevisions
<1> QED
  BY <1>1, <1>2 DEF CheckedResultStaysValid, ResultIsValid, LatestHasErrors, Latest

LEMMA SameResult ==
  ASSUME NEW b \in Build, build'[b] = build[b], published' = published, ResultIsValid(b)
  PROVE  ResultIsValid(b)'
BY DEF ResultIsValid, LatestHasErrors, Latest, NoDependents, LiveRevisions

LEMMA SamePatches ==
  ASSUME CheckedPatchStaysValid, published' = published,
         \A a \in Admin : admin'[a].phase = "checked" => admin'[a] = admin[a]
  PROVE  CheckedPatchStaysValid'
<1>1. \A v : GetVersion(v)' = GetVersion(v)
  BY DEF GetVersion, LiveRevisions
<1> QED
  BY <1>1 DEF CheckedPatchStaysValid

LEMMA ResultsAfterPublishVersion ==
  ASSUME TypeOK, CheckedResultStaysValid, NEW b \in Build, NEW v \in Version,
         NEW s \in Status, NEW p \in Version \cup {NoVersion}, PublishVersion(b, v, s, p)
  PROVE  CheckedResultStaysValid'
<1>1. ASSUME NEW c \in Build PROVE ResultIsValid(c)'
  <2>1. CASE c = b
    <3>1. build'[b] = [NotRequested EXCEPT !.phase = "requested", !.version = v,
                                           !.status = s, !.previous = p]
      BY DEF TypeOK, PublishVersion
    <3>2. p # v
      BY DEF PublishVersion, RequestAccepted
    <3> QED
      BY <2>1, <3>1, <3>2 DEF NotRequested, ResultIsValid
  <2>2. CASE c # b
    <3>1. build'[c] = build[c] /\ published' = published
      BY <2>2 DEF TypeOK, PublishVersion
    <3> QED
      BY <3>1, ValidResults, SameResult
  <2> QED
    BY <2>1, <2>2
<1> QED
  BY <1>1, ValidResults

LEMMA ResultsAfterBuildVersion ==
  ASSUME TypeOK, CheckedResultStaysValid, NEW b \in Build, NEW e \in BOOLEAN,
         NEW x \in BOOLEAN, BuildVersion(b, e, x)
  PROVE  CheckedResultStaysValid'
<1>1. ASSUME NEW c \in Build PROVE ResultIsValid(c)'
  <2>1. CASE c = b
    <3> DEFINE against == IF build[b].previous = NoVersion THEN 0
                          ELSE GetVersion(build[b].previous)
    <3>1. build'[b] = [build[b] EXCEPT !.phase = "built", !.errors = e,
                                       !.against = against, !.changelogErrors = x]
      BY DEF TypeOK, BuildVersion
    <3>2. (against # 0 => build[b].previous # NoVersion) /\ (x => against # 0)
      BY DEF BuildVersion
    <3>3. build[b] \in BuildState /\ build[b].phase = "requested" /\ ResultIsValid(b)
      BY ValidResults DEF TypeOK, BuildVersion
    <3> HIDE DEF against
    <3> QED
      BY <2>1, <3>1, <3>2, <3>3 DEF ResultIsValid, BuildState
  <2>2. CASE c # b
    <3>1. build'[c] = build[c] /\ published' = published
      BY <2>2 DEF TypeOK, BuildVersion
    <3> QED
      BY <3>1, ValidResults, SameResult
  <2> QED
    BY <2>1, <2>2
<1> QED
  BY <1>1, ValidResults

LEMMA ResultsAfterCheckResult ==
  ASSUME TypeOK, CheckedResultStaysValid, NEW b \in Build, CheckResult(b)
  PROVE  CheckedResultStaysValid'
<1>1. ASSUME NEW c \in Build PROVE ResultIsValid(c)'
  <2>1. CASE c = b
    <3>1. build'[b] = [build[b] EXCEPT !.phase = "checked",
                                       !.revision = Len(published[build[b].version]) + 1]
      BY DEF TypeOK, CheckResult, GetVersionIncludingDeleted
    <3>2. build[b] \in BuildState /\ build[b].phase = "built" /\ ResultIsValid(b)
      BY ValidResults DEF TypeOK, CheckResult
    <3>3. build[b].errors => build[b].status = "draft" /\ NoDependents(build[b].version)
      <4>1. build[b].errors =>
              /\ build[b].status # "release"
              /\ GetVersionRevisionsByPreviousVersion(build[b].version) = {}
        BY DEF CheckResult, ResultRefused, ResultHasErrors
      <4>2. build[b].errors => NoDependents(build[b].version)
        BY <4>1, Dependents
      <4> QED
        BY <3>2, <4>1, <4>2 DEF BuildState, Status
    <3>4. build[b].previous # NoVersion =>
            ~LatestHasErrors(build[b].previous)
      <4>1. SUFFICES ASSUME NEW p \in Version, p = build[b].previous, LatestHasErrors(p)
                     PROVE  FALSE
        BY <3>2 DEF BuildState
      <4>2. Len(published[p]) \in DOMAIN published[p]
        BY <4>1, LatestIsRevision DEF LatestHasErrors
      <4>3. VersionHasAnyErrors(p, Len(published[p]))
        BY <4>1, <4>2 DEF VersionHasAnyErrors, LatestHasErrors, Latest
      <4> QED
        BY <4>1, <4>3, VersionAssumption
           DEF CheckResult, ResultRefused, PreviousVersionRefused, GetVersionIncludingDeleted
    <3>5. published' = published
      BY DEF CheckResult
    <3>6. /\ build'[b].phase = "checked"
          /\ build'[b].revision = Len(published[build[b].version]) + 1
          /\ build'[b].version = build[b].version /\ build'[b].previous = build[b].previous
          /\ build'[b].errors = build[b].errors /\ build'[b].status = build[b].status
          /\ build'[b].against = build[b].against
          /\ build'[b].changelogErrors = build[b].changelogErrors
      BY <3>1, <3>2 DEF BuildState
    <3> QED
      BY <2>1, <3>2, <3>3, <3>4, <3>5, <3>6
         DEF ResultIsValid, NoDependents, LatestHasErrors, Latest, LiveRevisions
  <2>2. CASE c # b
    <3>1. build'[c] = build[c] /\ published' = published
      BY <2>2 DEF TypeOK, CheckResult
    <3> QED
      BY <3>1, ValidResults, SameResult
  <2> QED
    BY <2>1, <2>2
<1> QED
  BY <1>1, ValidResults

LEMMA ResultsAfterRefuseResult ==
  ASSUME TypeOK, CheckedResultStaysValid, NEW b \in Build, RefuseResult(b)
  PROVE  CheckedResultStaysValid'
<1>1. ASSUME NEW c \in Build PROVE ResultIsValid(c)'
  <2>1. CASE c = b
    <3>1. build'[b] = [build[b] EXCEPT !.phase = "refused"]
      BY DEF TypeOK, RefuseResult
    <3>2. build[b] \in BuildState /\ build[b].phase = "built" /\ ResultIsValid(b)
      BY ValidResults DEF TypeOK, RefuseResult
    <3> QED
      BY <2>1, <3>1, <3>2 DEF ResultIsValid, BuildState
  <2>2. CASE c # b
    <3>1. build'[c] = build[c] /\ published' = published
      BY <2>2 DEF TypeOK, RefuseResult
    <3> QED
      BY <3>1, ValidResults, SameResult
  <2> QED
    BY <2>1, <2>2
<1> QED
  BY <1>1, ValidResults

-----------------------------------------------------------------------------
(***************************************************************************)
(* Changes overtake the checks of all others.                              *)
(***************************************************************************)
LEMMA OvertakenBuild ==
  ASSUME TypeOK, NEW v, NEW others, NEW b \in Build, b \in others
  PROVE  LET c == OvertakeBuilds(v, others)[b] IN
         /\ c.phase = build[b].phase /\ c.version = build[b].version
         /\ c.previous = build[b].previous /\ c.errors = build[b].errors
         /\ c.status = build[b].status /\ c.against = build[b].against
         /\ c.revision = build[b].revision
         /\ c.changelogErrors = build[b].changelogErrors
         /\ c.phase = "checked" => c.overtaken
         /\ c.phase \in {"requested", "built", "checked"} =>
              c.changed = build[b].changed \cup ({v} \ {build[b].version})
<1>1. build[b] \in BuildState
  BY DEF TypeOK
<1>2. OvertakeBuilds(v, others)[b]
        = IF build[b].phase \in {"requested", "built", "checked"}
          THEN [build[b] EXCEPT !.changed = @ \cup ({v} \ {build[b].version}),
                                !.overtaken = (build[b].phase = "checked")]
          ELSE build[b]
  BY DEF OvertakeBuilds
<1> QED
  BY <1>1, <1>2 DEF BuildState

LEMMA OvertakenResult ==
  ASSUME TypeOK, CheckedResultStaysValid, NEW v, NEW others, NEW b \in Build, b \in others,
         build'[b] = OvertakeBuilds(v, others)[b]
  PROVE  ResultIsValid(b)'
<1>1. ResultIsValid(b)
  BY ValidResults
<1>2. /\ build'[b].phase = build[b].phase /\ build'[b].version = build[b].version
      /\ build'[b].previous = build[b].previous /\ build'[b].errors = build[b].errors
      /\ build'[b].status = build[b].status /\ build'[b].against = build[b].against
      /\ build'[b].changelogErrors = build[b].changelogErrors
      /\ build'[b].phase = "checked" => build'[b].overtaken
  BY OvertakenBuild
<1> QED
  BY <1>1, <1>2 DEF ResultIsValid

LEMMA OvertakenResults ==
  ASSUME TypeOK, CheckedResultStaysValid, NEW v, build' = OvertakeBuilds(v, Build)
  PROVE  CheckedResultStaysValid'
<1>1. ASSUME NEW b \in Build PROVE ResultIsValid(b)'
  BY OvertakenResult
<1> QED
  BY <1>1, ValidResults

LEMMA OvertakenPatches ==
  ASSUME TypeOK, CheckedPatchStaysValid,
         \A a \in Admin : admin'[a] \in {OvertakeAdmins[a], Idle}
  PROVE  CheckedPatchStaysValid'
<1>1. ASSUME NEW a \in Admin, admin'[a].phase = "checked"
      PROVE  admin'[a].version \in Version /\ admin'[a].overtaken
  <2>1. admin[a] \in AdminState
    BY DEF TypeOK
  <2>2. admin'[a] = IF admin[a].phase = "checked"
                    THEN [admin[a] EXCEPT !.overtaken = TRUE] ELSE admin[a]
    <3>1. Idle.phase # "checked"
      BY DEF Idle
    <3>2. admin'[a] = OvertakeAdmins[a]
      BY <1>1, <3>1, Zenon
    <3> QED
      BY <3>2 DEF OvertakeAdmins
  <2> QED
    BY <1>1, <2>1, <2>2 DEF AdminState, CheckedPatchStaysValid
<1> QED
  BY <1>1 DEF CheckedPatchStaysValid

-----------------------------------------------------------------------------
(***************************************************************************)
(* A revision is stored.                                                   *)
(***************************************************************************)
LEMMA ResultsAfterCreateVersionWithData ==
  ASSUME TypeOK, CheckedResultStaysValid, NEW b \in Build, CreateVersionWithData(b)
  PROVE  CheckedResultStaysValid'
<1> DEFINE overtaken == OvertakeBuilds(build[b].version, Build \ {b})
<1>0. build[b].version \in Version
  BY DEF CreateVersionWithData, CheckedResultStaysValid
<1>1. overtaken \in [Build -> BuildState] /\ build' = [overtaken EXCEPT ![b].phase = "committed"]
  BY <1>0, OvertakenTypes DEF CreateVersionWithData
<1>2. overtaken[b] = build[b]
  BY DEF OvertakeBuilds
<1>3. ASSUME NEW c \in Build PROVE ResultIsValid(c)'
  <2>1. CASE c = b
    <3>1. build'[b] = [build[b] EXCEPT !.phase = "committed"]
      <4> HIDE DEF overtaken
      <4> QED
        BY <1>1, <1>2
    <3>2. build[b] \in BuildState /\ build[b].phase = "checked" /\ ResultIsValid(b)
      BY ValidResults DEF TypeOK, CreateVersionWithData
    <3> QED
      BY <2>1, <3>1, <3>2 DEF ResultIsValid, BuildState
  <2>2. CASE c # b
    <3>1. build'[c] = overtaken[c]
      <4> HIDE DEF overtaken
      <4> QED
        BY <1>1, <2>2
    <3> QED
      BY <2>2, <3>1, OvertakenResult
  <2> QED
    BY <2>1, <2>2
<1> QED
  BY <1>3, ValidResults

(***************************************************************************)
(* In time, the revision is a new one, whose row holds this build only.    *)
(***************************************************************************)
LEMMA RevisionIsAppended ==
  ASSUME TypeOK, CheckedResultStaysValid, NEW b \in Build, CreateVersionWithData(b),
         ~build[b].overtaken
  PROVE  LET v == build[b].version
             n == Len(published[v]) IN
         /\ v \in Version /\ n \in Nat
         /\ \A w \in Version \ {v} : published'[w] = published[w]
         /\ Len(published'[v]) = n + 1
         /\ \A r \in 1..n : published'[v][r] = published[v][r]
         /\ published'[v][n + 1].status = build[b].status
         /\ published'[v][n + 1].previous = build[b].previous
         /\ published'[v][n + 1].errors = build[b].errors
         /\ published'[v][n + 1].deleted = FALSE
         /\ published'[v][n + 1].builds = {b}
         /\ published'[v][n + 1].compared
              = IF build[b].against = 0 THEN {}
                ELSE {<< build[b].previous, build[b].against >>}
         /\ published'[v][n + 1].changed = build[b].changed
         /\ build[b].revision = n + 1
<1> DEFINE v == build[b].version
           n == Len(published[v])
           key == {<< build[b].previous, build[b].against >>}
           compared == {} \cup (IF build[b].against = 0 THEN {} ELSE key)
           changelogErrors == ({} \ key) \cup (IF build[b].changelogErrors THEN key ELSE {})
           row == [ status |-> build[b].status, previous |-> build[b].previous,
                    errors |-> build[b].errors, deleted |-> FALSE,
                    builds |-> {b} \cup {}, compared |-> compared,
                    changelogErrors |-> changelogErrors, changed |-> build[b].changed ]
<1>1. build[b].phase = "checked" /\ ResultIsValid(b)
  BY ValidResults DEF CreateVersionWithData
<1>2. v \in Version /\ build[b].revision = n + 1
  BY <1>1 DEF ResultIsValid
<1>3. published[v] \in Seq(Revision) /\ n \in Nat /\ DOMAIN published[v] = 1..n
  BY <1>2, RowsAreRevisions
<1>4. InsertOrUpdate(published[v], b) = Append(published[v], row)
  <2>1. build[b].revision \notin DOMAIN published[v]
    BY <1>2, <1>3
  <2> QED
    BY <2>1 DEF InsertOrUpdate
<1>5. published' = [published EXCEPT ![v] = Append(published[v], row)]
  BY <1>4 DEF CreateVersionWithData
<1>6. published'[v] = Append(published[v], row)
  BY <1>2, <1>5 DEF TypeOK
<1>7. \A w \in Version \ {v} : published'[w] = published[w]
  BY <1>5 DEF TypeOK
<1>8. /\ Len(published'[v]) = n + 1
      /\ \A r \in 1..n : published'[v][r] = published[v][r]
      /\ published'[v][n + 1] = row
  <2> HIDE DEF row
  <2> QED
    BY <1>3, <1>6
<1> QED
  BY <1>2, <1>3, <1>7, <1>8

LEMMA GuaranteesAfterCreateVersionWithData ==
  ASSUME TypeOK, TypeOK', CheckedResultStaysValid, Guarantees, NEW b \in Build,
         CreateVersionWithData(b)
  PROVE  Guarantees'
<1> DEFINE v == build[b].version
           n == Len(published[v])
<1>1. CASE build[b].overtaken
  BY <1>1 DEF CreateVersionWithData, Guarantees, HandlersInTime, LiveVersionIsListed,
     RevisionHasOneBuild, PreviousVersionHasNoErrors, ReleaseHasNoErrors
<1>2. CASE ~build[b].overtaken
  <2>1. /\ v \in Version /\ n \in Nat
        /\ \A w \in Version \ {v} : published'[w] = published[w]
        /\ Len(published'[v]) = n + 1
        /\ \A r \in 1..n : published'[v][r] = published[v][r]
        /\ published'[v][n + 1].status = build[b].status
        /\ published'[v][n + 1].previous = build[b].previous
        /\ published'[v][n + 1].errors = build[b].errors
        /\ published'[v][n + 1].deleted = FALSE
        /\ published'[v][n + 1].builds = {b}
    BY <1>2, RevisionIsAppended
  <2>2. /\ build[b].version # build[b].previous
        /\ build[b].errors => build[b].status = "draft" /\ NoDependents(v)
        /\ build[b].previous # NoVersion =>
             ~LatestHasErrors(build[b].previous)
    BY <1>2, ValidResults DEF ResultIsValid, CreateVersionWithData
  <2>3. HandlersInTime' => HandlersInTime
    BY DEF HandlersInTime, CreateVersionWithData
  <2>4. DOMAIN published'[v] = 1..(n + 1) /\ DOMAIN published[v] = 1..n
    BY <2>1, NextRowsAreRevisions, RowsAreRevisions
  <2> HIDE DEF v, n
  <2>5. ASSUME NEW w \in Version, NEW r \in DOMAIN published'[w], w # v \/ r # n + 1
        PROVE  r \in DOMAIN published[w] /\ published'[w][r] = published[w][r]
    <3>1. CASE w = v
      <4>1. r \in 1..n
        BY <2>1, <2>4, <2>5, <3>1
      <4> QED
        BY <2>1, <2>4, <3>1, <4>1
    <3>2. CASE w # v
      BY <2>1, <3>2
    <3> QED
      BY <3>1, <3>2
  <2> USE DEF v, n
  <2>6. LiveVersionIsListed'
    <3>1. ASSUME HandlersInTime', NEW w \in Version, LiveRevisions(w)' # {}
          PROVE  Listed(w)'
      <4>1. CASE w = v
        <5>1. published'[v] # << >>
          <6>1. Len(published'[v]) = n + 1 /\ n \in Nat
            BY <2>1
          <6> HIDE DEF v, n
          <6> QED
            BY <6>1
        <5> QED
          BY <2>1, <4>1, <5>1 DEF Listed
      <4>2. CASE w # v
        <5>1. published'[w] = published[w]
          BY <2>1, <4>2
        <5>2. LiveRevisions(w) # {}
          BY <3>1, <5>1 DEF LiveRevisions
        <5>3. Listed(w)
          BY <2>3, <3>1, <5>2 DEF Guarantees, LiveVersionIsListed
        <5> QED
          BY <5>1, <5>3 DEF Listed
      <4> QED
        BY <4>1, <4>2
    <3> QED
      BY <3>1 DEF LiveVersionIsListed
  <2>7. RevisionHasOneBuild'
    <3>1. ASSUME HandlersInTime', NEW w \in Version, NEW r \in DOMAIN published'[w]
          PROVE  Cardinality(published'[w][r].builds) = 1
      <4>1. CASE w = v /\ r = n + 1
        <5>1. published'[w][r].builds = {b}
          BY <2>1, <4>1
        <5> QED
          BY <5>1, FS_Singleton
      <4>2. CASE w # v \/ r # n + 1
        <5>1. r \in DOMAIN published[w] /\ published'[w][r] = published[w][r]
          BY <2>5, <4>2
        <5> QED
          BY <2>3, <3>1, <5>1 DEF Guarantees, RevisionHasOneBuild
      <4> QED
        BY <4>1, <4>2
    <3> QED
      BY <3>1 DEF RevisionHasOneBuild
  <2>8. PreviousVersionHasNoErrors'
    <3>1. ASSUME HandlersInTime', NEW w \in Version, published'[w] # << >>,
                 published'[w][Len(published'[w])].errors
          PROVE  NoDependents(w) /\ build[b].previous # w
      <4>1. CASE w = v
        BY <2>1, <2>2, <3>1, <4>1
      <4>2. CASE w # v
        <5>1. published[w] # << >> /\ published[w][Len(published[w])].errors
          BY <2>1, <3>1, <4>2
        <5>2. GetVersionRevisionsByPreviousVersion(w) = {}
          BY <2>3, <3>1, <5>1 DEF Guarantees, PreviousVersionHasNoErrors,
                LatestHasErrors, Latest
        <5>3. LatestHasErrors(w)
          BY <5>1 DEF LatestHasErrors, Latest
        <5> QED
          BY <2>2, <5>2, <5>3, Dependents, VersionAssumption
      <4> QED
        BY <4>1, <4>2
    <3>2. ASSUME NEW w \in Version, NoDependents(w), build[b].previous # w
          PROVE  NoDependents(w)'
      <4>1. ASSUME NEW u \in Version, NEW r \in LiveRevisions(u)'
            PROVE  published'[u][r].previous # w
        <5>1. CASE u = v /\ r = n + 1
          BY <2>1, <3>2, <5>1
        <5>2. CASE u # v \/ r # n + 1
          <6>1. r \in DOMAIN published'[u] /\ ~published'[u][r].deleted
            BY DEF LiveRevisions
          <6>2. r \in DOMAIN published[u] /\ published'[u][r] = published[u][r]
            BY <2>5, <5>2, <6>1
          <6>3. r \in LiveRevisions(u)
            BY <6>1, <6>2 DEF LiveRevisions
          <6> QED
            BY <3>2, <6>2, <6>3 DEF NoDependents
        <5> QED
          BY <5>1, <5>2
      <4> QED
        BY <4>1 DEF NoDependents
    <3> QED
      BY <3>1, <3>2, Dependents DEF PreviousVersionHasNoErrors, LatestHasErrors, Latest
  <2>9. ReleaseHasNoErrors'
    <3>1. ASSUME HandlersInTime', NEW w \in Version, NEW r \in LiveRevisions(w)',
                 published'[w][r].status = "release"
          PROVE  ~published'[w][r].errors
      <4>0. r \in DOMAIN published'[w] /\ ~published'[w][r].deleted
        BY DEF LiveRevisions
      <4>1. CASE w = v /\ r = n + 1
        BY <2>1, <2>2, <3>1, <4>1
      <4>2. CASE w # v \/ r # n + 1
        <5>1. r \in DOMAIN published[w] /\ published'[w][r] = published[w][r]
          BY <2>5, <4>0, <4>2
        <5>2. r \in LiveRevisions(w)
          BY <4>0, <5>1 DEF LiveRevisions
        <5> QED
          BY <2>3, <3>1, <5>1, <5>2 DEF Guarantees, ReleaseHasNoErrors
      <4> QED
        BY <4>1, <4>2
    <3> QED
      BY <3>1 DEF ReleaseHasNoErrors
  <2> QED
    BY <2>6, <2>7, <2>8, <2>9 DEF Guarantees
<1> QED
  BY <1>1, <1>2

-----------------------------------------------------------------------------
(***************************************************************************)
(* Comparisons are added, or found to have errors: nothing else changes.   *)
(***************************************************************************)
SameRevision(w, r) ==
  /\ Eroded(w, r)
  /\ published'[w][r].status = published[w][r].status
  /\ published'[w][r].deleted = published[w][r].deleted
  /\ published'[w][r].previous = published[w][r].previous

SameRevisions ==
  \A w \in Version :
    /\ Len(published'[w]) = Len(published[w])
    /\ \A r \in 1..Len(published[w]) : SameRevision(w, r)

LEMMA OneRowIsReplaced ==
  ASSUME TypeOK, NEW w \in Version, NEW n \in 1..Len(published[w]), NEW row,
         published'[w] = [published[w] EXCEPT ![n] = row],
         row.errors = published[w][n].errors, row.builds = published[w][n].builds,
         row.changed = published[w][n].changed, row.status = published[w][n].status,
         row.deleted = published[w][n].deleted, row.previous = published[w][n].previous
  PROVE  /\ Len(published'[w]) = Len(published[w])
         /\ \A r \in 1..Len(published[w]) : SameRevision(w, r)
<1>1. published[w] \in Seq(Revision) /\ DOMAIN published[w] = 1..Len(published[w])
  BY RowsAreRevisions
<1>2. Len(published'[w]) = Len(published[w])
  BY <1>1
<1>3. \A r \in 1..Len(published[w]) :
        published'[w][r] = IF r = n THEN row ELSE published[w][r]
  BY <1>1
<1> QED
  BY <1>2, <1>3 DEF SameRevision, Eroded

LEMMA RowsAfterReCalculateChangelogs ==
  ASSUME TypeOK, NEW b \in Build, ReCalculateChangelogs(b)
  PROVE  SameRevisions
<1> DEFINE v == build[b].version
<1>1. PICK ordered \in SUBSET GetVersionsByPreviousVersion(v) :
        published' = OrderChangelogs(ordered, v, build[b].revision)
  BY DEF ReCalculateChangelogs
<1>2. ASSUME NEW w \in Version
      PROVE  /\ Len(published'[w]) = Len(published[w])
             /\ \A r \in 1..Len(published[w]) : SameRevision(w, r)
  <2> DEFINE n == Len(published[w])
             row == [published[w][n] EXCEPT !.compared = @ \cup {<< v, build[b].revision >>}]
  <2>1. published'[w] = IF w \in ordered THEN [published[w] EXCEPT ![n] = row]
                                         ELSE published[w]
    BY <1>1 DEF OrderChangelogs
  <2>2. CASE w \in ordered
    <3>1. n \in 1..n /\ published[w][n] \in Revision
      BY <2>2, LatestIsRevision, RowsAreRevisions DEF GetVersionsByPreviousVersion, Listed, Latest
    <3>2. /\ row.errors = published[w][n].errors /\ row.builds = published[w][n].builds
          /\ row.changed = published[w][n].changed /\ row.status = published[w][n].status
          /\ row.deleted = published[w][n].deleted
          /\ row.previous = published[w][n].previous
      BY <3>1 DEF Revision
    <3>3. published'[w] = [published[w] EXCEPT ![n] = row]
      BY <2>1, <2>2
    <3> HIDE DEF row
    <3> QED
      BY <3>1, <3>2, <3>3, OneRowIsReplaced
  <2>3. CASE w \notin ordered
    BY <2>1, <2>3 DEF SameRevision, Eroded
  <2> QED
    BY <2>2, <2>3
<1> QED
  BY <1>2 DEF SameRevisions

LEMMA RowsAfterPublishChanges ==
  ASSUME TypeOK, NEW v \in Version, NEW r \in DOMAIN published[v],
         NEW key \in published[v][r].compared, NEW x \in BOOLEAN, PublishChanges(v, r, key, x)
  PROVE  TypeOK' /\ SameRevisions
<1> DEFINE former == published[v][r].changelogErrors
           keys == IF x THEN former \cup {key} ELSE former \ {key}
           row == [published[v][r] EXCEPT !.changelogErrors = keys]
<1>1. published[v] \in Seq(Revision) /\ r \in 1..Len(published[v]) /\ published[v][r] \in Revision
  BY RowsAreRevisions
<1>2. keys \in SUBSET (Version \X Nat)
  BY <1>1 DEF Revision
<1>3. published' = [published EXCEPT ![v] = [published[v] EXCEPT ![r] = row]]
  BY DEF PublishChanges
<1>4. /\ row.errors = published[v][r].errors /\ row.builds = published[v][r].builds
      /\ row.changed = published[v][r].changed /\ row.status = published[v][r].status
      /\ row.deleted = published[v][r].deleted
      /\ row.previous = published[v][r].previous
  BY <1>1 DEF Revision
<1> HIDE DEF keys
<1>5. row \in Revision
  BY <1>1, <1>2, RowUpdates
<1> HIDE DEF row
<1>6. [published[v] EXCEPT ![r] = row] \in Seq(Revision)
  BY <1>1, <1>5, ReplacedElement
<1>7. TypeOK'
  BY <1>3, <1>6 DEF TypeOK, PublishChanges
<1>8. published'[v] = [published[v] EXCEPT ![r] = row]
  BY <1>3 DEF TypeOK
<1>9. \A w \in Version \ {v} : published'[w] = published[w]
  BY <1>3 DEF TypeOK
<1>10. ASSUME NEW w \in Version
       PROVE  /\ Len(published'[w]) = Len(published[w])
              /\ \A q \in 1..Len(published[w]) : SameRevision(w, q)
  <2>1. CASE w = v
    BY <1>1, <1>4, <1>8, <2>1, OneRowIsReplaced
  <2>2. CASE w # v
    BY <1>9, <2>2 DEF SameRevision, Eroded
  <2> QED
    BY <2>1, <2>2
<1> QED
  BY <1>7, <1>10 DEF SameRevisions

LEMMA SameLiveRevisions ==
  ASSUME TypeOK, TypeOK', SameRevisions, NEW w \in Version
  PROVE  LiveRevisions(w)' = LiveRevisions(w) /\ GetVersion(w)' = GetVersion(w)
<1>1. Len(published'[w]) = Len(published[w])
  BY DEF SameRevisions
<1>2. DOMAIN published'[w] = DOMAIN published[w] /\ DOMAIN published[w] = 1..Len(published[w])
  BY <1>1, RowsAreRevisions, NextRowsAreRevisions
<1>3. \A r \in DOMAIN published[w] : published'[w][r].deleted = published[w][r].deleted
  BY <1>2 DEF SameRevisions, SameRevision
<1>4. LiveRevisions(w)' = LiveRevisions(w)
  BY <1>2, <1>3 DEF LiveRevisions
<1> QED
  BY <1>4 DEF GetVersion

LEMMA SameRevisionsKeepInvariant ==
  ASSUME VersionInvariant, TypeOK', SameRevisions, UNCHANGED << admin, outdated >>,
         \A c \in Build :
           \/ build'[c] = build[c]
           \/ /\ build[c].phase = "committed"
              /\ build'[c] \in {[build[c] EXCEPT !.phase = "done"],
                                [build[c] EXCEPT !.phase = "failed"]}
  PROVE  VersionInvariant'
<1>1. TypeOK /\ CheckedResultStaysValid /\ CheckedPatchStaysValid
  BY DEF VersionInvariant
<1>3. ErodedRows
  BY DEF ErodedRows, SameRevisions, SameRevision
<1>4. \A w \in Version : LiveRevisions(w)' = LiveRevisions(w)
  BY <1>1, SameLiveRevisions
<1>5. \A w \in Version : GetVersion(w)' = GetVersion(w)
  BY <1>1, SameLiveRevisions
<1>7. HandlersInTime' => HandlersInTime
  BY DEF HandlersInTime
<1>8. \A w \in Version : \A r \in LiveRevisions(w) :
        /\ r \in 1..Len(published[w])
        /\ published'[w][r].status = published[w][r].status
        /\ published'[w][r].errors = published[w][r].errors
  BY <1>1, GetVersionType DEF SameRevisions, SameRevision, Eroded
<1>9. RevisionHasOneBuild' /\ PreviousVersionHasNoErrors'
  BY <1>1, <1>3, <1>7, ErosionKeepsGuarantees DEF VersionInvariant
<1>10. LiveVersionIsListed'
  <2>1. ASSUME HandlersInTime', NEW w \in Version, LiveRevisions(w)' # {}
        PROVE  Listed(w)'
    <3>1. Listed(w)
      BY <1>4, <1>7, <2>1 DEF VersionInvariant, LiveVersionIsListed
    <3>2. Len(published[w]) \in 1..Len(published[w]) /\ Len(published'[w]) = Len(published[w])
      BY <1>1, <3>1, RowsAreRevisions DEF Listed, SameRevisions
    <3>3. published'[w] # << >>
      BY <3>2
    <3>4. published'[w][Len(published[w])].deleted = published[w][Len(published[w])].deleted
      BY <3>2 DEF SameRevisions, SameRevision
    <3> QED
      BY <3>1, <3>2, <3>3, <3>4 DEF Listed
  <2> QED
    BY <2>1 DEF LiveVersionIsListed
<1>11. ReleaseHasNoErrors'
  <2>1. ASSUME HandlersInTime', NEW w \in Version, NEW r \in LiveRevisions(w)',
               published'[w][r].status = "release"
        PROVE  ~published'[w][r].errors
    BY <1>4, <1>7, <1>8, <2>1 DEF VersionInvariant, ReleaseHasNoErrors
  <2> QED
    BY <2>1 DEF ReleaseHasNoErrors
<1>12. CheckedPatchStaysValid'
  <2>1. ASSUME NEW a \in Admin, admin[a].phase = "checked", ~admin[a].overtaken,
               admin[a].status = "release"
        PROVE  /\ GetVersion(admin[a].version)' # 0
               /\ ~published'[admin[a].version][GetVersion(admin[a].version)'].errors
    <3>0. PICK v \in Version : v = admin[a].version
      BY <1>1, <2>1 DEF CheckedPatchStaysValid
    <3>1. GetVersion(v) # 0 /\ ~published[v][GetVersion(v)].errors
      BY <1>1, <2>1, <3>0 DEF CheckedPatchStaysValid
    <3>2. GetVersion(v) \in LiveRevisions(v)
      BY <1>1, <3>1, GetVersionType
    <3>3. GetVersion(admin[a].version)' = GetVersion(v)
      <4>1. (admin[a].version)' = v
        BY <3>0
      <4>2. GetVersion(admin[a].version)' = GetVersion(v)'
        BY <4>1 DEF GetVersion, LiveRevisions
      <4> QED
        BY <1>5, <4>2
    <3> QED
      BY <1>8, <3>0, <3>1, <3>2, <3>3
  <2> QED
    BY <1>1, <2>1 DEF CheckedPatchStaysValid, GetVersion, LiveRevisions, Max
<1>13. CheckedResultStaysValid'
  <2>1. ASSUME NEW c \in Build PROVE ResultIsValid(c)'
    <3>1. ResultIsValid(c) /\ build[c] \in BuildState
      BY <1>1, ValidResults DEF TypeOK
    <3>2. CASE /\ build[c].phase = "committed"
               /\ build'[c] \in {[build[c] EXCEPT !.phase = "done"],
                                 [build[c] EXCEPT !.phase = "failed"]}
      BY <3>1, <3>2 DEF ResultIsValid, BuildState
    <3>3. CASE build'[c] = build[c]
      <4>2. CASE build[c].phase # "checked"
        BY <3>1, <3>3, <4>2 DEF ResultIsValid
      <4>3. CASE build[c].phase = "checked"
        <5> DEFINE v == build[c].version
                   p == build[c].previous
        <5>1. v \in Version
          BY <3>1, <4>3 DEF ResultIsValid
        <5>2. Len(published'[v]) = Len(published[v])
          BY <5>1 DEF SameRevisions
        <5>3. NoDependents(v) => NoDependents(v)'
          BY <1>1, <1>3, <3>3, <5>1, ErosionKeepsDependentsAway
             DEF NoDependents, LiveRevisions
        <5>4. p # NoVersion /\ ~LatestHasErrors(p) => ~LatestHasErrors(p)'
          <6>1. SUFFICES ASSUME p \in Version PROVE LatestHasErrors(p)' => LatestHasErrors(p)
            BY <3>1 DEF BuildState
          <6>2. /\ Len(published'[p]) = Len(published[p])
                /\ Len(published[p]) \in Nat
                /\ published[p] \in Seq(Revision) /\ published'[p] \in Seq(Revision)
            BY <1>1, <6>1, RowsAreRevisions, NextRowsAreRevisions DEF SameRevisions
          <6>3. \A r \in 1..Len(published[p]) :
                  published'[p][r].errors = published[p][r].errors
            BY <1>3, <6>1 DEF ErodedRows, Eroded
          <6>4. published'[p] # << >> => published[p] # << >>
                  /\ published'[p][Len(published[p])].errors = published[p][Len(published[p])].errors
            BY <6>2, <6>3
          <6> QED
            BY <3>3, <6>2, <6>4 DEF LatestHasErrors, Latest
        <5> QED
          BY <3>1, <3>3, <5>1, <5>2, <5>3, <5>4
             DEF ResultIsValid, NoDependents, LatestHasErrors, Latest, LiveRevisions
      <4> QED
        BY <4>2, <4>3
    <3> QED
      BY <3>2, <3>3
  <2> QED
    BY <2>1, ValidResults
<1> QED
  BY <1>9, <1>10, <1>11, <1>12, <1>13 DEF VersionInvariant

LEMMA BuildsAfterReCalculateChangelogs ==
  ASSUME TypeOK, NEW b \in Build, ReCalculateChangelogs(b), NEW c \in Build
  PROVE  \/ build'[c] = build[c]
         \/ /\ c = b /\ build[c].phase = "committed"
            /\ build'[c] \in {[build[c] EXCEPT !.phase = "done"],
                              [build[c] EXCEPT !.phase = "failed"]}
<1>1. PICK p \in {"done", "failed"} : build' = [build EXCEPT ![b].phase = p]
  BY DEF ReCalculateChangelogs
<1>2. build[b].phase = "committed"
  BY DEF ReCalculateChangelogs
<1> QED
  BY <1>1, <1>2 DEF TypeOK

LEMMA ReCalculateChangelogsKeepsInvariant ==
  ASSUME VersionInvariant, NEW b \in Build, ReCalculateChangelogs(b)
  PROVE  VersionInvariant'
<1>1. TypeOK /\ CheckedResultStaysValid
  BY DEF VersionInvariant
<1>2. TypeOK' /\ SameRevisions
  BY <1>1, TypeReCalculateChangelogs, RowsAfterReCalculateChangelogs
<1>3. UNCHANGED << admin, outdated >>
  BY DEF ReCalculateChangelogs
<1> QED
  BY <1>1, <1>2, <1>3, BuildsAfterReCalculateChangelogs, SameRevisionsKeepInvariant

LEMMA PublishChangesKeepsInvariant ==
  ASSUME VersionInvariant, NEW v \in Version, NEW r \in DOMAIN published[v],
         NEW key \in published[v][r].compared, NEW x \in BOOLEAN, PublishChanges(v, r, key, x)
  PROVE  VersionInvariant'
<1>1. TypeOK' /\ SameRevisions
  BY RowsAfterPublishChanges DEF VersionInvariant
<1>2. UNCHANGED << build, admin, outdated >>
  BY DEF PublishChanges
<1> QED
  BY <1>1, <1>2, SameRevisionsKeepInvariant

-----------------------------------------------------------------------------
(***************************************************************************)
(* Status changes.                                                         *)
(***************************************************************************)
LEMMA CheckPatchKeepsInvariant ==
  ASSUME VersionInvariant, NEW a \in Admin, NEW v \in Version, NEW s \in Status,
         CheckPatch(a, v, s)
  PROVE  VersionInvariant'
<1>1. TypeOK /\ CheckedResultStaysValid /\ CheckedPatchStaysValid /\ Guarantees
  BY DEF VersionInvariant, Guarantees
<1>2. TypeOK'
  BY <1>1, TypeCheckPatch
<1>3. Guarantees'
  BY <1>1, SameRows DEF CheckPatch
<1>4. CheckedResultStaysValid'
  BY <1>1, SameResult, ValidResults DEF CheckPatch
<1>5. CheckedPatchStaysValid'
  <2>1. admin' = [admin EXCEPT ![a] = [ phase |-> "checked", version |-> v, status |-> s,
                                        overtaken |-> FALSE ]]
    BY DEF CheckPatch
  <2>2. GetVersion(v) # 0
    BY DEF CheckPatch
  <2>3. s = "release" => ~published[v][GetVersion(v)].errors
    <3>1. GetVersion(v) \in DOMAIN published[v]
      BY <1>1, <2>2, GetVersionType DEF LiveRevisions
    <3> QED
      BY <3>1 DEF CheckPatch, PatchAccepted, VersionHasAnyErrors
  <2>4. ASSUME NEW c \in Admin, NEW w, w = admin'[c].version, admin'[c].phase = "checked",
               ~admin'[c].overtaken, admin'[c].status = "release"
        PROVE  w \in Version /\ GetVersion(w) # 0 /\ ~published[w][GetVersion(w)].errors
    <3>1. CASE c = a
      BY <1>1, <2>1, <2>2, <2>3, <2>4, <3>1 DEF TypeOK
    <3>2. CASE c # a
      BY <1>1, <2>1, <2>4, <3>2 DEF TypeOK, CheckedPatchStaysValid
    <3> QED
      BY <3>1, <3>2
  <2>5. ASSUME NEW c \in Admin, admin'[c].phase = "checked"
        PROVE  admin'[c].version \in Version
    BY <1>1, <2>1, <2>5 DEF TypeOK, CheckedPatchStaysValid
  <2>6. published' = published
    BY DEF CheckPatch
  <2> QED
    BY <2>4, <2>5, <2>6 DEF CheckedPatchStaysValid, GetVersion, LiveRevisions
<1> QED
  BY <1>2, <1>3, <1>4, <1>5 DEF VersionInvariant, Guarantees

LEMMA PatchVersionKeepsInvariant ==
  ASSUME VersionInvariant, NEW a \in Admin, PatchVersion(a)
  PROVE  VersionInvariant'
<1>1. TypeOK /\ CheckedResultStaysValid /\ CheckedPatchStaysValid /\ Guarantees
  BY DEF VersionInvariant, Guarantees
<1>2. TypeOK'
  BY <1>1, TypePatchVersion
<1>3. PICK v \in Version : v = admin[a].version
  BY <1>1 DEF PatchVersion, CheckedPatchStaysValid
<1> DEFINE r == GetVersion(v)
           s == admin[a].status
<1>4. CASE r = 0
  <2>1. published' = published /\ build' = build /\ outdated' = outdated
        /\ admin' = [admin EXCEPT ![a] = Idle]
    BY <1>3, <1>4 DEF PatchVersion
  <2>2. Guarantees'
    BY <1>1, <2>1, SameRows
  <2>3. CheckedResultStaysValid'
    BY <1>1, <2>1, SameResult, ValidResults
  <2>4. CheckedPatchStaysValid'
    <3>1. \A c \in Admin : admin'[c].phase = "checked" => admin'[c] = admin[c]
      BY <1>1, <2>1 DEF TypeOK, Idle
    <3> QED
      BY <1>1, <2>1, <3>1, SamePatches
  <2> QED
    BY <1>2, <2>2, <2>3, <2>4 DEF VersionInvariant, Guarantees
<1>5. CASE r # 0
  <2>1. /\ published' = [published EXCEPT ![v][r].status = s]
        /\ build' = OvertakeBuilds(v, Build)
        /\ admin' = [OvertakeAdmins EXCEPT ![a] = Idle]
        /\ outdated' = (outdated \/ admin[a].overtaken)
        /\ admin[a].phase = "checked"
    BY <1>3, <1>5 DEF PatchVersion
  <2>2. /\ r \in LiveRevisions(v) /\ r \in 1..Len(published[v])
        /\ DOMAIN published[v] = 1..Len(published[v])
        /\ published[v][r] \in Revision
    BY <1>1, <1>5, GetVersionType, RowsAreRevisions
  <2>3. \A w \in Version \ {v} : published'[w] = published[w]
    BY <1>1, <2>1 DEF TypeOK
  <2>4. published'[v] = [published[v] EXCEPT ![r].status = s]
    BY <1>1, <2>1 DEF TypeOK
  <2>5. \A w \in Version : Len(published'[w]) = Len(published[w])
    <3>1. Len(published'[v]) = Len(published[v])
      BY <1>1, <2>4, RowsAreRevisions
    <3> QED
      BY <2>3, <3>1
  <2>6. ASSUME NEW w \in Version, NEW q \in 1..Len(published[w])
        PROVE  /\ Eroded(w, q)
               /\ published'[w][q].deleted = published[w][q].deleted
               /\ published'[w][q].status = IF w = v /\ q = r THEN s ELSE published[w][q].status
    <3>1. CASE w = v /\ q = r
      <4>1. published'[v][r] = [published[v][r] EXCEPT !.status = s]
        BY <2>2, <2>4
      <4> QED
        BY <2>2, <3>1, <4>1 DEF Eroded, Revision
    <3>2. CASE w = v /\ q # r
      <4>1. published'[v][q] = published[v][q]
        BY <2>2, <2>4, <3>2
      <4> QED
        BY <3>2, <4>1 DEF Eroded
    <3>3. CASE w # v
      BY <2>3, <3>3 DEF Eroded
    <3> QED
      BY <3>1, <3>2, <3>3
  <2>7. CheckedResultStaysValid'
    BY <1>1, <2>1, OvertakenResults
  <2>8. CheckedPatchStaysValid'
    <3>1. OvertakeAdmins \in [Admin -> AdminState]
      BY <1>1, OvertakenTypes
    <3>2. \A c \in Admin : admin'[c] \in {OvertakeAdmins[c], Idle}
      BY <2>1, <3>1
    <3> QED
      BY <1>1, <3>2, OvertakenPatches
  <2>9. HandlersInTime' => HandlersInTime /\ ~admin[a].overtaken
    BY <2>1 DEF HandlersInTime
  <2>10. RevisionHasOneBuild' /\ PreviousVersionHasNoErrors'
    <3>1. ErodedRows
      BY <2>5, <2>6 DEF ErodedRows
    <3> QED
      BY <1>1, <1>2, <2>9, <3>1, ErosionKeepsGuarantees DEF Guarantees
  <2>11. \A w \in Version : DOMAIN published'[w] = 1..Len(published[w])
                            /\ DOMAIN published[w] = 1..Len(published[w])
    BY <1>1, <1>2, <2>5, RowsAreRevisions, NextRowsAreRevisions
  <2>12. ASSUME NEW w \in Version PROVE LiveRevisions(w)' = LiveRevisions(w)
    BY <2>6, <2>11 DEF LiveRevisions
  <2>13. LiveVersionIsListed'
    <3>1. ASSUME HandlersInTime', NEW w \in Version, LiveRevisions(w)' # {}
          PROVE  Listed(w)'
      <4>1. Listed(w)
        BY <1>1, <2>9, <2>12, <3>1 DEF Guarantees, LiveVersionIsListed
      <4>2. Len(published[w]) \in 1..Len(published[w]) /\ published'[w] # << >>
        BY <1>1, <2>5, <4>1, RowsAreRevisions DEF Listed
      <4> QED
        BY <2>5, <2>6, <4>1, <4>2 DEF Listed
    <3> QED
      BY <3>1 DEF LiveVersionIsListed
  <2>14. ReleaseHasNoErrors'
    <3>1. ASSUME HandlersInTime', NEW w \in Version, NEW q \in LiveRevisions(w)',
                 published'[w][q].status = "release"
          PROVE  ~published'[w][q].errors
      <4>1. q \in LiveRevisions(w) /\ q \in 1..Len(published[w])
        BY <2>12, <2>11 DEF LiveRevisions
      <4>2. CASE w = v /\ q = r
        <5>1. s = "release"
          BY <2>6, <3>1, <4>1, <4>2
        <5>2. ~published[v][r].errors
          BY <1>1, <1>3, <2>1, <2>9, <3>1, <5>1 DEF CheckedPatchStaysValid
        <5> QED
          BY <2>6, <4>1, <4>2, <5>2 DEF Eroded
      <4>3. CASE ~(w = v /\ q = r)
        <5>1. published[w][q].status = "release"
          BY <2>6, <3>1, <4>1, <4>3
        <5> QED
          BY <1>1, <2>6, <2>9, <3>1, <4>1, <5>1 DEF Guarantees, ReleaseHasNoErrors, Eroded
      <4> QED
        BY <4>2, <4>3
    <3> QED
      BY <3>1 DEF ReleaseHasNoErrors
  <2> QED
    BY <1>2, <2>7, <2>8, <2>10, <2>13, <2>14 DEF VersionInvariant
<1> QED
  BY <1>4, <1>5

-----------------------------------------------------------------------------
(***************************************************************************)
(* Deletions.                                                              *)
(***************************************************************************)
LEMMA RowsAfterDelete ==
  ASSUME TypeOK, NEW v \in Version, NEW gone \in SUBSET LiveRevisions(v), Delete(v, gone)
  PROVE  /\ published' \in [Version -> Seq(Revision)]
         /\ \A w \in Version :
              /\ Len(published'[w]) = Len(published[w])
              /\ \A r \in 1..Len(published[w]) :
                   /\ Eroded(w, r)
                   /\ published'[w][r].status = published[w][r].status
                   /\ published'[w][r].deleted = (published[w][r].deleted \/ (w = v /\ r \in gone))
<1> DEFINE marked == MarkDeleted(v, gone)
           cleared == ClearPreviousVersion(marked, v)
<1>1. published' \in {marked, cleared}
  BY DEF Delete
<1>2. /\ marked \in [Version -> Seq(Revision)]
      /\ \A w \in Version : /\ Len(marked[w]) = Len(published[w])
                            /\ w # v => marked[w] = published[w]
      /\ \A r \in 1..Len(published[v]) :
           marked[v][r] = IF r \in gone THEN [published[v][r] EXCEPT !.deleted = TRUE]
                                        ELSE published[v][r]
  BY MarkedRows
<1> HIDE DEF marked
<1>3. /\ cleared \in [Version -> Seq(Revision)]
      /\ \A w \in Version :
           /\ Len(cleared[w]) = Len(marked[w])
           /\ \A r \in 1..Len(marked[w]) :
                cleared[w][r] \in {marked[w][r], [marked[w][r] EXCEPT !.previous = NoVersion]}
  BY <1>2, ClearedRows
<1> HIDE DEF cleared
<1>4. \A w \in Version : Len(published'[w]) = Len(published[w])
  BY <1>1, <1>2, <1>3
<1>5. ASSUME NEW w \in Version, NEW r \in 1..Len(published[w])
      PROVE  /\ marked[w][r] \in Revision
             /\ marked[w][r].errors = published[w][r].errors
             /\ marked[w][r].builds = published[w][r].builds
             /\ marked[w][r].changed = published[w][r].changed
             /\ marked[w][r].status = published[w][r].status
             /\ marked[w][r].previous = published[w][r].previous
             /\ marked[w][r].deleted = (published[w][r].deleted \/ (w = v /\ r \in gone))
  <2>1. published[w][r] \in Revision
    BY RowsAreRevisions
  <2>2. CASE w = v /\ r \in gone
    <3>1. marked[w][r] = [published[w][r] EXCEPT !.deleted = TRUE]
      BY <1>2, <2>2
    <3> QED
      BY <2>1, <2>2, <3>1 DEF Revision
  <2>3. CASE ~(w = v /\ r \in gone)
    <3>1. marked[w][r] = published[w][r]
      BY <1>2, <2>3
    <3>2. published[w][r].deleted = (published[w][r].deleted \/ (w = v /\ r \in gone))
      BY <2>1, <2>3 DEF Revision
    <3> QED
      BY <2>1, <3>1, <3>2
  <2> QED
    BY <2>2, <2>3
<1>6. ASSUME NEW w \in Version, NEW r \in 1..Len(published[w])
      PROVE  /\ published'[w][r].errors = marked[w][r].errors
             /\ published'[w][r].builds = marked[w][r].builds
             /\ published'[w][r].changed = marked[w][r].changed
             /\ published'[w][r].status = marked[w][r].status
             /\ published'[w][r].previous \in {marked[w][r].previous, NoVersion}
             /\ published'[w][r].deleted = marked[w][r].deleted
  <2>1. published'[w][r] \in {marked[w][r], [marked[w][r] EXCEPT !.previous = NoVersion]}
    BY <1>1, <1>2, <1>3
  <2> QED
    BY <1>5, <2>1 DEF Revision
<1>7. ASSUME NEW w \in Version, NEW r \in 1..Len(published[w])
      PROVE  /\ Eroded(w, r)
             /\ published'[w][r].status = published[w][r].status
             /\ published'[w][r].deleted = (published[w][r].deleted \/ (w = v /\ r \in gone))
  <2>1. published'[w][r].deleted = (published[w][r].deleted \/ (w = v /\ r \in gone))
    <3>1. marked[w][r].deleted = (published[w][r].deleted \/ (w = v /\ r \in gone))
      BY <1>5, Zenon
    <3>2. published'[w][r].deleted = marked[w][r].deleted
      BY <1>6, Zenon
    <3> QED
      BY <3>1, <3>2, Zenon
  <2>2. published[w][r].deleted => published'[w][r].deleted
    BY <2>1, Zenon
  <2>3. /\ published'[w][r].errors = published[w][r].errors
        /\ published'[w][r].builds = published[w][r].builds
        /\ published'[w][r].changed = published[w][r].changed
        /\ published'[w][r].status = published[w][r].status
        /\ published'[w][r].previous \in {published[w][r].previous, NoVersion}
    BY <1>5, <1>6
  <2> QED
    BY <2>1, <2>2, <2>3, Zenon DEF Eroded
<1> QED
  BY <1>1, <1>2, <1>3, <1>4, <1>7

(***************************************************************************)
(* The cleanup job never deletes the last revision and leaves another one. *)
(***************************************************************************)
LEMMA CandidatesSpareTheLast ==
  ASSUME TypeOK, NEW v \in Version, NEW last \in DOMAIN published[v],
         CleanupCandidates(v, last) # LiveRevisions(v)
  PROVE  Len(published[v]) \notin CleanupCandidates(v, last)
<1> DEFINE n == Len(published[v])
<1>1. /\ n \in Nat /\ DOMAIN published[v] = 1..n
      /\ \A q \in LiveRevisions(v) : q \in 1..n
  BY RowsAreRevisions, GetVersionType
<1>2. SUFFICES ASSUME n \in CleanupCandidates(v, last) PROVE FALSE
  OBVIOUS
<1>3. n <= last /\ \A q \in OldRevisions(v, n) :
                     /\ q = GetVersion(v) => DeleteLastRevision
                     /\ published[v][q].status = "release" => DeleteReleaseRevisions
  BY <1>2 DEF CleanupCandidates, OldRevisions
<1>4. ASSUME NEW q \in LiveRevisions(v) PROVE q \in CleanupCandidates(v, last)
  <2>1. q \in OldRevisions(v, last) /\ OldRevisions(v, q) \subseteq OldRevisions(v, n)
    BY <1>1, <1>3 DEF OldRevisions
  <2> QED
    BY <1>3, <2>1 DEF CleanupCandidates
<1>5. CleanupCandidates(v, last) \subseteq LiveRevisions(v)
  BY DEF CleanupCandidates, OldRevisions
<1> QED
  BY <1>4, <1>5

LEMMA DeleteKeepsInvariant ==
  ASSUME VersionInvariant, NEW v \in Version, NEW gone \in SUBSET LiveRevisions(v),
         Delete(v, gone), gone = LiveRevisions(v) \/ Len(published[v]) \notin gone
  PROVE  VersionInvariant'
<1>1. TypeOK /\ CheckedResultStaysValid /\ CheckedPatchStaysValid /\ Guarantees
  BY DEF VersionInvariant, Guarantees
<1>2. /\ published' \in [Version -> Seq(Revision)]
      /\ \A w \in Version :
           /\ Len(published'[w]) = Len(published[w])
           /\ \A r \in 1..Len(published[w]) :
                /\ Eroded(w, r)
                /\ published'[w][r].status = published[w][r].status
                /\ published'[w][r].deleted = (published[w][r].deleted \/ (w = v /\ r \in gone))
  BY <1>1, RowsAfterDelete
<1>3. /\ build' = OvertakeBuilds(v, Build) /\ admin' = OvertakeAdmins
      /\ outdated' = outdated /\ changes' \in 0..MaxChanges
  BY <1>1, VersionAssumption DEF Delete, TypeOK
<1>4. TypeOK'
  BY <1>1, <1>2, <1>3, OvertakenTypes DEF TypeOK
<1>5. CheckedResultStaysValid' /\ CheckedPatchStaysValid'
  BY <1>1, <1>3, OvertakenResults, OvertakenPatches
<1>6. HandlersInTime' => HandlersInTime
  BY <1>3 DEF HandlersInTime
<1>7. RevisionHasOneBuild' /\ PreviousVersionHasNoErrors'
  <2>1. ErodedRows
    BY <1>2 DEF ErodedRows
  <2> QED
    BY <1>1, <1>4, <1>6, <2>1, ErosionKeepsGuarantees DEF Guarantees
<1>8. \A w \in Version : /\ DOMAIN published'[w] = 1..Len(published[w])
                         /\ DOMAIN published[w] = 1..Len(published[w])
                         /\ Len(published[w]) \in Nat
  BY <1>1, <1>2, <1>4, RowsAreRevisions, NextRowsAreRevisions
<1>9. ASSUME NEW w \in Version, NEW r \in LiveRevisions(w)'
      PROVE  /\ r \in LiveRevisions(w) /\ r \in 1..Len(published[w])
             /\ ~(w = v /\ r \in gone)
  BY <1>2, <1>8 DEF LiveRevisions
<1>10. LiveVersionIsListed'
  <2>1. ASSUME HandlersInTime', NEW w \in Version, NEW r \in LiveRevisions(w)'
        PROVE  Listed(w)'
    <3> DEFINE n == Len(published[w])
    <3>1. Listed(w)
      BY <1>1, <1>6, <1>9, <2>1 DEF Guarantees, LiveVersionIsListed
    <3>2. n \in 1..n /\ ~published[w][n].deleted /\ published'[w] # << >>
      BY <1>2, <1>8, <1>9, <3>1 DEF Listed
    <3>3. ~(w = v /\ n \in gone)
      BY <1>9
    <3>4. ~published'[w][n].deleted
      BY <1>2, <3>2, <3>3
    <3> QED
      BY <1>2, <3>2, <3>4 DEF Listed
  <2> QED
    BY <2>1 DEF LiveVersionIsListed
<1>11. ReleaseHasNoErrors'
  <2>1. ASSUME HandlersInTime', NEW w \in Version, NEW r \in LiveRevisions(w)',
               published'[w][r].status = "release"
        PROVE  ~published'[w][r].errors
    BY <1>1, <1>2, <1>6, <1>9, <2>1 DEF Guarantees, ReleaseHasNoErrors, Eroded
  <2> QED
    BY <2>1 DEF ReleaseHasNoErrors
<1> QED
  BY <1>4, <1>5, <1>7, <1>10, <1>11 DEF VersionInvariant

-----------------------------------------------------------------------------
(***************************************************************************)
(* The invariant.                                                          *)
(***************************************************************************)
LEMMA InvInit == Init => VersionInvariant
<1> SUFFICES ASSUME Init PROVE VersionInvariant
  OBVIOUS
<1>1. TypeOK
  BY TypeInit
<1>2. CheckedResultStaysValid
  <2>1. \A b \in Build : /\ build[b].phase = "none" /\ build[b].against = 0
                         /\ build[b].changelogErrors = FALSE
    BY DEF Init, NotRequested
  <2> QED
    BY <2>1 DEF CheckedResultStaysValid
<1>3. CheckedPatchStaysValid
  BY DEF Init, Idle, CheckedPatchStaysValid
<1>4. \A v \in Version : published[v] = << >> /\ LiveRevisions(v) = {}
  BY DEF Init, LiveRevisions
<1>5. LiveVersionIsListed /\ ReleaseHasNoErrors /\ PreviousVersionHasNoErrors
  BY <1>4 DEF LiveVersionIsListed, ReleaseHasNoErrors, PreviousVersionHasNoErrors,
              LatestHasErrors
<1>6. RevisionHasOneBuild
  BY <1>4 DEF RevisionHasOneBuild
<1> QED
  BY <1>1, <1>2, <1>3, <1>5, <1>6 DEF VersionInvariant

LEMMA PublishKeepsInvariant ==
  ASSUME VersionInvariant, NEW b \in Build, Publish(b)
  PROVE  VersionInvariant'
<1>1. TypeOK /\ CheckedResultStaysValid /\ CheckedPatchStaysValid /\ Guarantees
  BY DEF VersionInvariant, Guarantees
<1>2. ASSUME UNCHANGED << published, admin, outdated >>, TypeOK', CheckedResultStaysValid'
      PROVE  VersionInvariant'
  BY <1>1, <1>2, SameRows, SamePatches DEF VersionInvariant, Guarantees
<1>3. ASSUME NEW v \in Version, NEW s \in Status, NEW p \in Version \cup {NoVersion},
             PublishVersion(b, v, s, p)
      PROVE  VersionInvariant'
  <2>1. TypeOK' /\ CheckedResultStaysValid'
    BY <1>1, <1>3, TypePublishVersion, ResultsAfterPublishVersion
  <2> QED
    BY <1>2, <1>3, <2>1 DEF PublishVersion
<1>4. ASSUME NEW e \in BOOLEAN, NEW x \in BOOLEAN, BuildVersion(b, e, x)
      PROVE  VersionInvariant'
  <2>1. TypeOK' /\ CheckedResultStaysValid'
    BY <1>1, <1>4, TypeBuildVersion, ResultsAfterBuildVersion
  <2> QED
    BY <1>2, <1>4, <2>1 DEF BuildVersion
<1>5. CASE CheckResult(b)
  <2>1. TypeOK' /\ CheckedResultStaysValid'
    BY <1>1, <1>5, TypeCheckResult, ResultsAfterCheckResult
  <2> QED
    BY <1>2, <1>5, <2>1 DEF CheckResult
<1>6. CASE RefuseResult(b)
  <2>1. TypeOK' /\ CheckedResultStaysValid'
    BY <1>1, <1>6, TypeRefuseResult, ResultsAfterRefuseResult
  <2> QED
    BY <1>2, <1>6, <2>1 DEF RefuseResult
<1>7. CASE CreateVersionWithData(b)
  <2>1. TypeOK'
    BY <1>1, <1>7, TypeCreateVersionWithData
  <2>2. CheckedResultStaysValid'
    BY <1>1, <1>7, ResultsAfterCreateVersionWithData
  <2>3. Guarantees'
    BY <1>1, <1>7, <2>1, GuaranteesAfterCreateVersionWithData
  <2>4. CheckedPatchStaysValid'
    BY <1>1, <1>7, OvertakenPatches DEF CreateVersionWithData
  <2> QED
    BY <2>1, <2>2, <2>3, <2>4 DEF VersionInvariant, Guarantees
<1>8. CASE ReCalculateChangelogs(b)
  BY <1>8, ReCalculateChangelogsKeepsInvariant
<1> QED
  BY <1>3, <1>4, <1>5, <1>6, <1>7, <1>8 DEF Publish

LEMMA RemoveKeepsInvariant ==
  ASSUME VersionInvariant, NEW v \in Version, Remove(v)
  PROVE  VersionInvariant'
<1>1. TypeOK
  BY DEF VersionInvariant
<1>2. CASE DeleteVersion(v)
  BY <1>2, DeleteKeepsInvariant DEF DeleteVersion
<1>3. ASSUME NEW last \in DOMAIN published[v], DeleteVersionRevisions(v, last)
      PROVE  VersionInvariant'
  <2>1. CleanupCandidates(v, last) \in SUBSET LiveRevisions(v)
    BY DEF CleanupCandidates, OldRevisions
  <2>2. \/ CleanupCandidates(v, last) = LiveRevisions(v)
        \/ Len(published[v]) \notin CleanupCandidates(v, last)
    BY <1>1, CandidatesSpareTheLast
  <2> QED
    BY <1>3, <2>1, <2>2, DeleteKeepsInvariant DEF DeleteVersionRevisions
<1> QED
  BY <1>2, <1>3 DEF Remove

LEMMA InvStep == VersionInvariant /\ Next => VersionInvariant'
<1> SUFFICES ASSUME VersionInvariant, Next PROVE VersionInvariant'
  OBVIOUS
<1>1. ASSUME NEW b \in Build, Publish(b) PROVE VersionInvariant'
  BY <1>1, PublishKeepsInvariant
<1>2. ASSUME NEW a \in Admin, Patch(a) PROVE VersionInvariant'
  BY <1>2, CheckPatchKeepsInvariant, PatchVersionKeepsInvariant DEF Patch
<1>3. ASSUME NEW v \in Version, Remove(v) PROVE VersionInvariant'
  BY <1>3, RemoveKeepsInvariant
<1>4. ASSUME NEW v \in Version, Compare(v) PROVE VersionInvariant'
  <2>1. PICK r \in DOMAIN published[v], x \in BOOLEAN :
          \E key \in published[v][r].compared : PublishChanges(v, r, key, x)
    BY <1>4 DEF Compare
  <2> QED
    BY <2>1, PublishChangesKeepsInvariant
<1> QED
  BY <1>1, <1>2, <1>3, <1>4 DEF Next

LEMMA InvStutter == VersionInvariant /\ UNCHANGED vars => VersionInvariant'
<1> SUFFICES ASSUME VersionInvariant, UNCHANGED vars PROVE VersionInvariant'
  OBVIOUS
<1>1. TypeOK' /\ CheckedPatchStaysValid'
  BY SamePatches DEF VersionInvariant, vars, TypeOK
<1>2. CheckedResultStaysValid'
  BY SameResult, ValidResults DEF VersionInvariant, vars
<1>3. Guarantees'
  BY SameRows DEF VersionInvariant, Guarantees, vars
<1> QED
  BY <1>1, <1>2, <1>3 DEF VersionInvariant, Guarantees

\* The inductive invariant: while no handler has written what another change had
\* overtaken, the four guarantees below hold, and what each handler has checked is
\* still true when it writes (PublishPackage, VersionService.PatchVersion,
\* DeleteVersion, the revisions cleanup job).
THEOREM Invariance == Spec => []VersionInvariant
<1>1. Init => VersionInvariant
  BY InvInit
<1>2. VersionInvariant /\ [Next]_vars => VersionInvariant'
  BY InvStep, InvStutter
<1> QED
  BY <1>1, <1>2, PTL DEF Spec

\* The revisions, the publications and the status changes stay well-typed, even when
\* a handler writes over a revision that another one has stored meanwhile.
THEOREM TypeCorrectness == Spec => []TypeOK
<1>1. VersionInvariant => TypeOK
  BY DEF VersionInvariant
<1> QED
  BY <1>1, Invariance, PTL

\* While no handler relies on overtaken checks, a version with any revision left is
\* listed by the queries that take its latest revision of all: neither DeleteVersion
\* nor the cleanup job, whose candidates end at the first revision it must keep,
\* deletes the latest revision and keeps another.
THEOREM LiveVersionsAreListed == Spec => []LiveVersionIsListed
<1>1. VersionInvariant => LiveVersionIsListed
  BY DEF VersionInvariant
<1> QED
  BY <1>1, Invariance, PTL

\* While no handler relies on overtaken checks, no two publications end up in one
\* revision (revision numbers of PublishPackage, rows inserted or replaced by
\* CreateVersionWithData); two handlers of one version that run at once may share one.
THEOREM RevisionsHoldOneBuild == Spec => []RevisionHasOneBuild
<1>1. VersionInvariant => RevisionHasOneBuild
  BY DEF VersionInvariant
<1> QED
  BY <1>1, Invariance, PTL

\* While no handler relies on overtaken checks, no live revision is based on a previous
\* version whose latest revision has errors in its documents, however long the builds
\* of both take (the two checks of PublishPackage, of the previous version and of the
\* dependents).
THEOREM PreviousVersionsHaveNoErrors == Spec => []PreviousVersionHasNoErrors
<1>1. VersionInvariant => PreviousVersionHasNoErrors
  BY DEF VersionInvariant
<1> QED
  BY <1>1, Invariance, PTL

\* While no handler relies on overtaken checks, no live release has errors in its
\* documents (ValidateErroredVersionNotPublishedAsRelease, and the check of
\* VersionService.PatchVersion).
THEOREM ReleasesHaveNoErrors == Spec => []ReleaseHasNoErrors
<1>1. VersionInvariant => ReleaseHasNoErrors
  BY DEF VersionInvariant
<1> QED
  BY <1>1, Invariance, PTL

=============================================================================
