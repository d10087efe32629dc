-------------------------- MODULE VersionLinksProofs -------------------------
(***************************************************************************)
(* The guarantees of VersionPublishing about previous versions, for any    *)
(* number of versions, publications, status changes, deletions and         *)
(* cleanups in any order: of the versions that were not changed while a    *)
(* revision was being built, the previous version of a live revision is    *)
(* live, that of a release is no draft, every version is compared with its *)
(* previous version or will be, and, within one package, no version        *)
(* precedes itself.                                                        *)
(***************************************************************************)
EXTENDS VersionPublishingProofs

-----------------------------------------------------------------------------
(***************************************************************************)
(* Listed versions: the latest revision of all is the latest live one.     *)
(***************************************************************************)
LEMMA MaxOfTop ==
  ASSUME NEW n \in Nat, NEW S \in SUBSET (1..n), n \in S
  PROVE  Max(S) = n
<1>1. Max(S) \in S
  BY MaxIsMember
<1>2. \A y \in S : n >= y
  OBVIOUS
<1>3. \E x \in S : \A y \in S : x >= y
  BY <1>2
<1>4. \A y \in S : Max(S) >= y
  BY <1>3 DEF Max
<1>5. Max(S) \in 1..n /\ Max(S) >= n
  BY <1>1, <1>4
<1> HIDE DEF Max
<1> QED
  BY <1>5

LEMMA ListedVersion ==
  ASSUME TypeOK, NEW v \in Version, Listed(v)
  PROVE  /\ Len(published[v]) \in Nat \ {0}
         /\ Len(published[v]) \in LiveRevisions(v)
         /\ GetVersion(v) = Len(published[v])
         /\ Latest(v) \in Revision
<1>1. Len(published[v]) \in Nat \ {0} /\ Len(published[v]) \in LiveRevisions(v)
  BY RowsAreRevisions DEF Listed, LiveRevisions
<1>2. LiveRevisions(v) \in SUBSET (1..Len(published[v]))
  BY GetVersionType
<1>3. Max(LiveRevisions(v)) = Len(published[v])
  BY <1>1, <1>2, MaxOfTop
<1> QED
  BY <1>1, <1>3, LatestIsRevision DEF GetVersion, Listed

LEMMA NextListedVersion ==
  ASSUME TypeOK', NEW v \in Version, Listed(v)'
  PROVE  /\ Len(published'[v]) \in Nat \ {0}
         /\ Len(published'[v]) \in LiveRevisions(v)'
         /\ GetVersion(v)' = Len(published'[v])
<1>1. Len(published'[v]) \in Nat \ {0} /\ Len(published'[v]) \in LiveRevisions(v)'
  BY NextRowsAreRevisions DEF Listed, LiveRevisions
<1>2. LiveRevisions(v)' \in SUBSET (1..Len(published'[v]))
  BY NextRowsAreRevisions DEF LiveRevisions
<1>3. Max(LiveRevisions(v)') = Len(published'[v])
  BY <1>1, <1>2, MaxOfTop
<1>4. GetVersion(v)' = IF LiveRevisions(v)' = {} THEN 0 ELSE Max(LiveRevisions(v)')
  BY DEF GetVersion, Max
<1> QED
  BY <1>1, <1>3, <1>4

LEMMA LiveMeansListed ==
  ASSUME VersionInvariant, HandlersInTime, NEW v \in Version, LiveRevisions(v) # {}
  PROVE  Listed(v)
BY DEF VersionInvariant, LiveVersionIsListed

LEMMA LiveMeansGetVersion ==
  ASSUME TypeOK, NEW v \in Version
  PROVE  LiveRevisions(v) # {} <=> GetVersion(v) # 0
<1>1. LiveRevisions(v) # {} => GetVersion(v) \in 1..Len(published[v])
  BY GetVersionType
<1> QED
  BY <1>1, GetVersionType, RowsAreRevisions

-----------------------------------------------------------------------------
(***************************************************************************)
(* The guarantees, said of one row, version, build or status change.       *)
(***************************************************************************)
LiveStatus(v) == published[v][GetVersion(v)].status

LivePrevious(v) == published[v][GetVersion(v)].previous

RequestHolds(c) ==
  c.phase \in {"requested", "built", "checked"} =>
    /\ c.previous # NoVersion /\ c.previous \notin c.changed =>
         /\ GetVersion(c.previous) # 0
         /\ c.status = "release" => LiveStatus(c.previous) # "draft"
         /\ c.phase # "requested" => c.against = GetVersion(c.previous)
    /\ c.status = "draft" =>
         \A w \in Version \ (c.changed \cup {c.version}) :
           Listed(w) /\ Latest(w).previous = c.version => Latest(w).status # "release"

PatchHolds(c) ==
  c.phase = "checked" /\ ~c.overtaken =>
    /\ GetVersion(c.version) # 0
    /\ c.status = "release" =>
         \A p : p = LivePrevious(c.version) /\ p # NoVersion /\ GetVersion(p) # 0 =>
                  LiveStatus(p) # "draft"
    /\ c.status = "draft" /\ LiveStatus(c.version) = "release" =>
         \A w \in Version :
           Listed(w) /\ Latest(w).previous = c.version => Latest(w).status # "release"

LinkIsLive(row) ==
  row.previous # NoVersion /\ row.previous \notin row.changed =>
    LiveRevisions(row.previous) # {}

ReleaseFollows(v, p) ==
  /\ Listed(v) /\ Latest(v).status = "release" /\ p = Latest(v).previous /\ p # NoVersion
  /\ p \notin Latest(v).changed /\ v \notin Latest(p).changed
  => LiveStatus(p) # "draft"

ChangelogFollows(v, p) ==
  Listed(v) /\ p = Latest(v).previous /\ p # NoVersion /\ p \notin Latest(v).changed =>
    \/ << p, GetVersion(p) >> \in Latest(v).compared
    \/ \E b \in Build : /\ build[b].phase \in {"committed", "failed"}
                        /\ build[b].version = p
                        /\ build[b].revision = GetVersion(p)

SearchHolds(c) ==
  c.phase \in {"requested", "built", "checked"} =>
    \A cycle \in SUBSET Version :
      /\ c.version \in cycle /\ c.previous \in cycle
      /\ Linked(cycle \ {c.version}, cycle)
      => \E w \in cycle \ {c.version} :
           w \in c.changed \/ Latest(w).changed \cap cycle # {}

LEMMA Requests ==
  /\ RequestStaysValid <=> \A b \in Build : RequestHolds(build[b])
  /\ RequestStaysValid' <=> \A b \in Build : \A c : c = build'[b] => RequestHolds(c)'
<1>1. RequestStaysValid <=> \A b \in Build : RequestHolds(build[b])
  BY DEF RequestStaysValid, RequestHolds, LiveStatus, GetVersionsByPreviousVersion
<1>2. RequestStaysValid' <=> \A b \in Build : \A c : c = build'[b] => RequestHolds(c)'
  BY DEF RequestStaysValid, RequestHolds, LiveStatus, GetVersionsByPreviousVersion,
     GetVersion, LiveRevisions
<1> QED
  BY <1>1, <1>2

PatchStays(a) ==
  LET c == admin[a] IN
  c.phase = "checked" /\ ~c.overtaken =>
    LET row == published[c.version][GetVersion(c.version)]
        p == row.previous IN
    /\ GetVersion(c.version) # 0
    /\ c.status = "release" /\ p # NoVersion /\ GetVersion(p) # 0 =>
         published[p][GetVersion(p)].status # "draft"
    /\ c.status = "draft" /\ row.status = "release" =>
         CheckNoReleaseDependentVersions(c.version)

LEMMA Patches ==
  /\ PatchStaysValid <=> \A a \in Admin : PatchHolds(admin[a])
  /\ PatchStaysValid' <=> \A a \in Admin : \A c : c = admin'[a] => PatchHolds(c)'
<1>1. PatchStaysValid <=> \A a \in Admin : PatchHolds(admin[a])
  BY DEF PatchStaysValid, PatchHolds, LiveStatus, LivePrevious,
     CheckNoReleaseDependentVersions, GetVersionsByPreviousVersion
<1>2. PatchStaysValid' <=> \A a \in Admin : \A c : c = admin'[a] => PatchHolds(c)'
  <2>1. ASSUME NEW a \in Admin, NEW c, c = admin'[a]
        PROVE  /\ GetVersion(admin[a].version)' = GetVersion(c.version)'
               /\ CheckNoReleaseDependentVersions(admin[a].version)' <=>
                    \A w \in Version : Listed(w)' /\ Latest(w)'.previous = c.version =>
                                       Latest(w)'.status # "release"
    BY <2>1 DEF CheckNoReleaseDependentVersions, GetVersionsByPreviousVersion,
       GetVersion, LiveRevisions
  <2>2. ASSUME NEW a \in Admin, NEW c, c = admin'[a], NEW p,
               p = published'[c.version][GetVersion(c.version)'].previous
        PROVE  GetVersion(published[admin[a].version][GetVersion(admin[a].version)].previous)'
                 = GetVersion(p)'
    <3>1. published'[admin'[a].version][GetVersion(admin[a].version)'].previous = p
      BY <2>1, <2>2
    <3> QED
      BY <3>1, SMTT(30) DEF GetVersion, LiveRevisions
  <2>3. ASSUME NEW a \in Admin, NEW c, c = admin'[a], NEW n, n = GetVersion(c.version)',
               NEW row, row = published'[c.version][n], NEW p, p = row.previous
        PROVE  /\ GetVersion(admin[a].version)' = n
               /\ published'[admin'[a].version][GetVersion(admin[a].version)'] = row
               /\ GetVersion(published[admin[a].version][GetVersion(admin[a].version)].previous)'
                    = GetVersion(p)'
    BY <2>1, <2>2, <2>3
  <2>4. ASSUME NEW a \in Admin, NEW c, c = admin'[a]
        PROVE  PatchStays(a)' <=> PatchHolds(c)'
    <3>1. PICK n : n = GetVersion(c.version)'
      OBVIOUS
    <3>2. PICK row : row = published'[c.version][n]
      OBVIOUS
    <3>3. PICK p : p = row.previous
      OBVIOUS
    <3>4. /\ GetVersion(admin[a].version)' = n
          /\ published'[admin'[a].version][GetVersion(admin[a].version)'] = row
          /\ GetVersion(published[admin[a].version][GetVersion(admin[a].version)].previous)'
               = GetVersion(p)'
      BY <2>3, <2>4, <3>1, <3>2, <3>3
    <3>5. PatchHolds(c)' <=>
            (c.phase = "checked" /\ ~c.overtaken =>
               /\ n # 0
               /\ c.status = "release" /\ p # NoVersion /\ GetVersion(p)' # 0 =>
                    published'[p][GetVersion(p)'].status # "draft"
               /\ c.status = "draft" /\ row.status = "release" =>
                    \A w \in Version : Listed(w)' /\ Latest(w)'.previous = c.version =>
                                       Latest(w)'.status # "release")
      BY <2>4, <3>1, <3>2, <3>3 DEF PatchHolds, LiveStatus, LivePrevious
    <3>6. CheckNoReleaseDependentVersions(admin[a].version)' <=>
            \A w \in Version : Listed(w)' /\ Latest(w)'.previous = c.version =>
                               Latest(w)'.status # "release"
      BY <2>1, <2>4
    <3> QED
      BY <2>4, <3>3, <3>4, <3>5, <3>6 DEF PatchStays
  <2> QED
    BY <2>4 DEF PatchStaysValid, PatchStays
<1> QED
  BY <1>1, <1>2

LEMMA LiveLinks ==
  /\ PreviousVersionIsLive <=>
       \A v \in Version : \A r \in LiveRevisions(v) : LinkIsLive(published[v][r])
  /\ PreviousVersionIsLive' <=>
       \A v \in Version : \A r \in LiveRevisions(v)' :
         \A row : row = published'[v][r] => LinkIsLive(row)'
<1>1. PreviousVersionIsLive <=>
        \A v \in Version : \A r \in LiveRevisions(v) : LinkIsLive(published[v][r])
  BY DEF PreviousVersionIsLive, LinkIsLive
<1>2. PreviousVersionIsLive' <=>
        \A v \in Version : \A r \in LiveRevisions(v)' :
          \A row : row = published'[v][r] => LinkIsLive(row)'
  BY DEF PreviousVersionIsLive, LinkIsLive, LiveRevisions
<1> QED
  BY <1>1, <1>2

LEMMA Releases ==
  /\ ReleaseFollowsRelease <=>
       (HandlersInTime => \A v \in Version : \A p : ReleaseFollows(v, p))
  /\ ReleaseFollowsRelease' <=>
       (HandlersInTime' => \A v \in Version : \A p : ReleaseFollows(v, p)')
<1>1. ReleaseFollowsRelease <=>
        (HandlersInTime => \A v \in Version : \A p : ReleaseFollows(v, p))
  BY DEF ReleaseFollowsRelease, ReleaseFollows, LiveStatus
<1>2. ReleaseFollowsRelease' <=>
        (HandlersInTime' => \A v \in Version : \A p : ReleaseFollows(v, p)')
  BY DEF ReleaseFollowsRelease, ReleaseFollows, LiveStatus, GetVersion, LiveRevisions, Latest
<1> QED
  BY <1>1, <1>2

LEMMA Changelogs ==
  /\ ChangelogsFollow <=>
       (HandlersInTime => \A v \in Version : \A p : ChangelogFollows(v, p))
  /\ ChangelogsFollow' <=>
       (HandlersInTime' => \A v \in Version : \A p : ChangelogFollows(v, p)')
<1>1. ChangelogsFollow <=>
        (HandlersInTime => \A v \in Version : \A p : ChangelogFollows(v, p))
  BY DEF ChangelogsFollow, ChangelogFollows
<1>2. ChangelogsFollow' <=>
        (HandlersInTime' => \A v \in Version : \A p : ChangelogFollows(v, p)')
  BY DEF ChangelogsFollow, ChangelogFollows, GetVersion, LiveRevisions, Latest
<1> QED
  BY <1>1, <1>2

LEMMA Searches ==
  /\ SearchStaysValid <=> \A b \in Build : SearchHolds(build[b])
  /\ SearchStaysValid' <=> \A b \in Build : \A c : c = build'[b] => SearchHolds(c)'
<1>1. SearchStaysValid <=> \A b \in Build : SearchHolds(build[b])
  BY DEF SearchStaysValid, SearchHolds
<1>2. SearchStaysValid' <=> \A b \in Build : \A c : c = build'[b] => SearchHolds(c)'
  BY DEF SearchStaysValid, SearchHolds, Linked
<1> QED
  BY <1>1, <1>2

-----------------------------------------------------------------------------
(***************************************************************************)
(* What a step leaves of the versions that it does not change.             *)
(***************************************************************************)
LatestErodes(w) ==
  Listed(w)' =>
    /\ Listed(w)
    /\ Latest(w)'.changed = Latest(w).changed
    /\ Latest(w)'.previous \in {Latest(w).previous, NoVersion}

Kept(w) ==
  /\ GetVersion(w)' = GetVersion(w)
  /\ GetVersion(w) # 0 => LiveStatus(w)' = LiveStatus(w)
  /\ LatestErodes(w)
  /\ Listed(w)' => Latest(w)'.status = Latest(w).status
  /\ Listed(w) => Latest(w)'.changed = Latest(w).changed

LEMMA LatestErodesInRows ==
  ASSUME TypeOK, TypeOK', NEW w \in Version, Len(published'[w]) = Len(published[w]),
         \A r \in 1..Len(published[w]) : Eroded(w, r)
  PROVE  /\ LatestErodes(w)
         /\ Listed(w)' => Latest(w)' = published'[w][Len(published[w])]
<1> SUFFICES ASSUME Listed(w)'
             PROVE  LatestErodes(w) /\ Latest(w)' = published'[w][Len(published[w])]
  BY DEF LatestErodes
<1> DEFINE n == Len(published[w])
<1>1. n \in 1..n
  BY NextListedVersion
<1>2. Eroded(w, n) /\ ~published'[w][n].deleted
  BY <1>1 DEF Listed
<1>3. Listed(w)
  BY <1>1, <1>2, RowsAreRevisions DEF Eroded, Listed, Revision
<1>4. Latest(w)' = published'[w][n] /\ Latest(w) = published[w][n]
  BY DEF Latest
<1> QED
  BY <1>2, <1>3, <1>4 DEF LatestErodes, Eroded

LEMMA KeptRows ==
  ASSUME TypeOK, TypeOK', NEW w \in Version, Len(published'[w]) = Len(published[w]),
         \A r \in 1..Len(published[w]) :
           /\ Eroded(w, r)
           /\ published'[w][r].status = published[w][r].status
           /\ published'[w][r].deleted = published[w][r].deleted
  PROVE  Kept(w) /\ LiveRevisions(w)' = LiveRevisions(w)
<1>1. LiveRevisions(w)' = LiveRevisions(w)
  BY RowsAreRevisions, NextRowsAreRevisions DEF LiveRevisions
<1>2. GetVersion(w)' = GetVersion(w)
  BY <1>1 DEF GetVersion, Max
<1>3. GetVersion(w) # 0 => GetVersion(w) \in 1..Len(published[w])
  BY GetVersionType
<1>4. LatestErodes(w) /\ (Listed(w)' => Latest(w)' = published'[w][Len(published[w])])
  BY LatestErodesInRows
<1>5. Listed(w) => Len(published[w]) \in 1..Len(published[w])
  BY ListedVersion
<1>6. Listed(w) => Latest(w)'.changed = Latest(w).changed
  BY <1>5 DEF Latest, Eroded
<1>7. GetVersion(w) # 0 => LiveStatus(w)' = LiveStatus(w)
  BY <1>2, <1>3 DEF LiveStatus
<1>8. Listed(w)' => Latest(w)'.status = Latest(w).status
  BY <1>4, <1>5 DEF Latest, LatestErodes
<1> QED
  BY <1>1, <1>2, <1>4, <1>6, <1>7, <1>8 DEF Kept

LEMMA SameRevisionsAreKept ==
  ASSUME TypeOK, TypeOK', SameRevisions
  PROVE  \A w \in Version : Kept(w)
BY KeptRows DEF SameRevisions, SameRevision

LEMMA UnchangedRowsAreKept ==
  ASSUME TypeOK, TypeOK', NEW w \in Version, published'[w] = published[w]
  PROVE  Kept(w)
BY KeptRows DEF Eroded

(***************************************************************************)
(* What has been checked stays true of the versions that do not change.    *)
(***************************************************************************)
Continues(c, d, others) ==
  /\ d.phase = c.phase /\ d.version = c.version /\ d.previous = c.previous
  /\ d.status = c.status /\ d.against = c.against
  /\ c.phase \in {"requested", "built", "checked"} =>
       c.changed \cup (others \ {c.version}) \subseteq d.changed

LEMMA RequestStillHolds ==
  ASSUME NEW c \in BuildState, NEW d, NEW others \in SUBSET Version,
         Continues(c, d, others), \A w \in Version \ others : Kept(w),
         c.phase # "none" => c.version \in Version /\ c.previous # c.version,
         RequestHolds(c)
  PROVE  RequestHolds(d)'
<1> SUFFICES ASSUME c.phase \in {"requested", "built", "checked"}
             PROVE  RequestHolds(d)'
  BY DEF RequestHolds, Continues
<1> DEFINE p == c.previous
<1>1. /\ d.phase = c.phase /\ d.version = c.version /\ d.previous = p
      /\ d.status = c.status /\ d.against = c.against
      /\ c.changed \subseteq d.changed /\ others \subseteq d.changed \cup {c.version}
  BY DEF Continues
<1>2. p # NoVersion => p \in Version
  BY DEF BuildState
<1>3. p # c.version
  OBVIOUS
<1>4. ASSUME p # NoVersion, p \notin d.changed
      PROVE  /\ GetVersion(p)' # 0
             /\ c.status = "release" => LiveStatus(p)' # "draft"
             /\ c.phase # "requested" => c.against = GetVersion(p)'
  <2>1. Kept(p)
    BY <1>1, <1>2, <1>3, <1>4
  <2>2. /\ GetVersion(p) # 0
        /\ c.status = "release" => LiveStatus(p) # "draft"
        /\ c.phase # "requested" => c.against = GetVersion(p)
    BY <1>1, <1>4 DEF RequestHolds
  <2> QED
    BY <2>1, <2>2 DEF Kept
<1>5. ASSUME c.status = "draft", NEW w \in Version \ (d.changed \cup {c.version}),
             Listed(w)', Latest(w)'.previous = c.version
      PROVE  Latest(w)'.status # "release"
  <2>1. Kept(w)
    BY <1>1, <1>5
  <2>2. Listed(w) /\ Latest(w).previous = c.version /\ Latest(w)'.status = Latest(w).status
    BY <1>5, <2>1, VersionAssumption DEF Kept, LatestErodes
  <2> QED
    BY <1>1, <1>5, <2>2 DEF RequestHolds
<1> QED
  BY <1>1, <1>4, <1>5 DEF RequestHolds

LEMMA SearchStillHolds ==
  ASSUME NEW c, NEW d, NEW others \in SUBSET Version, Continues(c, d, others),
         \A w \in Version \ others : LatestErodes(w), SearchHolds(c)
  PROVE  SearchHolds(d)'
<1> SUFFICES ASSUME c.phase \in {"requested", "built", "checked"},
                    NEW cycle \in SUBSET Version, c.version \in cycle, c.previous \in cycle,
                    Linked(cycle \ {c.version}, cycle)'
             PROVE  \E w \in cycle \ {c.version} :
                      w \in d.changed \/ Latest(w)'.changed \cap cycle # {}
  BY DEF SearchHolds, Continues, Linked
<1>1. c.changed \subseteq d.changed /\ others \subseteq d.changed \cup {c.version}
  BY DEF Continues
<1>2. CASE (cycle \ {c.version}) \cap others # {}
  BY <1>1, <1>2
<1>3. CASE (cycle \ {c.version}) \cap others = {}
  <2>1. \A w \in cycle \ {c.version} :
          /\ Listed(w) /\ Latest(w).previous \in cycle
          /\ Latest(w)'.changed = Latest(w).changed
    BY <1>3, VersionAssumption DEF Linked, LatestErodes
  <2>2. PICK w \in cycle \ {c.version} :
               w \in c.changed \/ Latest(w).changed \cap cycle # {}
    BY <2>1 DEF SearchHolds, Linked
  <2> QED
    BY <1>1, <2>1, <2>2
<1> QED
  BY <1>2, <1>3

LEMMA AcyclicStays ==
  ASSUME \A w \in Version : LatestErodes(w), PreviousVersionsAcyclic
  PROVE  PreviousVersionsAcyclic'
<1> SUFFICES ASSUME NEW cycle \in SUBSET Version, cycle # {}, Linked(cycle, cycle)'
             PROVE  \E w \in cycle : Latest(w)'.changed \cap cycle # {}
  BY DEF PreviousVersionsAcyclic
<1>1. \A w \in cycle : /\ Listed(w) /\ Latest(w).previous \in cycle
                       /\ Latest(w)'.changed = Latest(w).changed
  BY VersionAssumption DEF Linked, LatestErodes
<1> QED
  BY <1>1 DEF PreviousVersionsAcyclic, Linked

(***************************************************************************)
(* After a change, all other checks are overtaken.                         *)
(***************************************************************************)
LEMMA OvertakenBuildContinues ==
  ASSUME TypeOK, NEW v \in Version, NEW others, NEW b \in Build, b \in others,
         NEW d, d = OvertakeBuilds(v, others)[b]
  PROVE  Continues(build[b], d, {v})
BY OvertakenBuild DEF Continues

LEMMA OvertakenChecks ==
  ASSUME TypeOK, \A a \in Admin : admin'[a] \in {OvertakeAdmins[a], Idle}
  PROVE  PatchStaysValid'
<1>1. ASSUME NEW a \in Admin PROVE admin'[a].phase = "checked" => admin'[a].overtaken
  <2>1. admin[a] \in AdminState
    BY DEF TypeOK
  <2>2. Idle.phase # "checked"
    BY DEF Idle
  <2>3. OvertakeAdmins[a] = IF admin[a].phase = "checked"
                            THEN [admin[a] EXCEPT !.overtaken = TRUE] ELSE admin[a]
    BY DEF OvertakeAdmins
  <2>4. OvertakeAdmins[a].phase = "checked" => OvertakeAdmins[a].overtaken
    BY <2>1, <2>3 DEF AdminState
  <2>5. CASE admin'[a] = Idle
    BY <2>2, <2>5
  <2>6. CASE admin'[a] = OvertakeAdmins[a]
    BY <2>4, <2>6
  <2> QED
    BY <2>5, <2>6
<1> QED
  BY <1>1, Patches DEF PatchHolds

(***************************************************************************)
(* Steps that keep the revisions: publications before and after their      *)
(* revision is stored, comparisons, and the checks of status changes.      *)
(***************************************************************************)
LEMMA SamePatchesStayValid ==
  ASSUME VersionInvariant, TypeOK', SameRevisions, PatchStaysValid, NEW a \in Admin,
         admin'[a] = admin[a], NEW c, c = admin[a]
  PROVE  PatchHolds(c)'
<1> SUFFICES ASSUME c.phase = "checked", ~c.overtaken PROVE PatchHolds(c)'
  BY DEF PatchHolds
<1>1. TypeOK /\ c.version \in Version
  BY DEF VersionInvariant, CheckedPatchStaysValid
<1>2. \A w \in Version : Kept(w)
  BY <1>1, SameRevisionsAreKept
<1>3. PatchHolds(c)
  BY Patches
<1>4. GetVersion(c.version)' = GetVersion(c.version)
  BY <1>1, <1>2 DEF Kept
<1>5. GetVersion(c.version) \in 1..Len(published[c.version])
  BY <1>1, <1>3, GetVersionType DEF PatchHolds
<1>6. /\ LiveStatus(c.version)' = LiveStatus(c.version)
      /\ LivePrevious(c.version)' = LivePrevious(c.version)
      /\ LivePrevious(c.version) \in Version \cup {NoVersion}
  BY <1>1, <1>4, <1>5, RowsAreRevisions
     DEF SameRevisions, SameRevision, LiveStatus, LivePrevious, Revision
<1>7. ASSUME NEW p, p = LivePrevious(c.version), p # NoVersion, GetVersion(p)' # 0,
             c.status = "release"
      PROVE  LiveStatus(p)' # "draft"
  <2>1. Kept(p)
    BY <1>2, <1>6, <1>7
  <2> QED
    BY <1>3, <1>7, <2>1 DEF Kept, PatchHolds
<1>8. ASSUME NEW w \in Version, Listed(w)', Latest(w)'.previous = c.version,
             c.status = "draft", LiveStatus(c.version) = "release"
      PROVE  Latest(w)'.status # "release"
  <2>1. Kept(w)
    BY <1>2
  <2> QED
    BY <1>1, <1>3, <1>8, <2>1, VersionAssumption DEF Kept, LatestErodes, PatchHolds
<1> QED
  BY <1>3, <1>4, <1>6, <1>7, <1>8 DEF PatchHolds

-----------------------------------------------------------------------------
(***************************************************************************)
(* Links between versions that a step keeps.                               *)
(***************************************************************************)
LEMMA PreviousOfListed ==
  ASSUME VersionInvariant, PreviousVersionIsLive, HandlersInTime, NEW v \in Version,
         Listed(v), NEW p, p = Latest(v).previous, p # NoVersion, p \notin Latest(v).changed
  PROVE  /\ p \in Version /\ Listed(p) /\ GetVersion(p) # 0
         /\ GetVersion(p) = Len(published[p]) /\ LiveStatus(p) = Latest(p).status
<1>1. TypeOK
  BY DEF VersionInvariant
<1>2. Len(published[v]) \in LiveRevisions(v) /\ Latest(v) \in Revision
  BY <1>1, ListedVersion
<1>3. p \in Version
  BY <1>2 DEF Revision
<1>4. LinkIsLive(Latest(v))
  BY <1>2, LiveLinks DEF Latest
<1>5. Listed(p)
  BY <1>3, <1>4, LiveMeansListed DEF LinkIsLive
<1> QED
  BY <1>1, <1>3, <1>5, ListedVersion DEF LiveStatus, Latest

LEMMA ReleaseStillFollows ==
  ASSUME VersionInvariant, PreviousVersionIsLive, ReleaseFollowsRelease, HandlersInTime,
         NEW v \in Version, Kept(v), NEW p, p \in Version => Kept(p)
  PROVE  ReleaseFollows(v, p)'
<1> SUFFICES ASSUME Listed(v)', Latest(v)'.status = "release", p = Latest(v)'.previous,
                    p # NoVersion, p \notin Latest(v)'.changed, v \notin Latest(p)'.changed
             PROVE  LiveStatus(p)' # "draft"
  BY DEF ReleaseFollows
<1>1. /\ Listed(v) /\ Latest(v).status = "release" /\ p = Latest(v).previous
      /\ p \notin Latest(v).changed
  BY DEF Kept, LatestErodes
<1>2. p \in Version /\ Listed(p) /\ GetVersion(p) # 0
  BY <1>1, PreviousOfListed
<1>3. v \notin Latest(p).changed /\ LiveStatus(p)' = LiveStatus(p)
  BY <1>2 DEF Kept
<1> QED
  BY <1>1, <1>3, Releases DEF ReleaseFollows

Orders ==
  \A b \in Build : build[b].phase \in {"committed", "failed"} => build'[b] = build[b]

LEMMA ChangelogStillFollows ==
  ASSUME VersionInvariant, PreviousVersionIsLive, ChangelogsFollow, HandlersInTime,
         NEW v \in Version, LatestErodes(v), Orders,
         NEW p, p \in Version => GetVersion(p)' = GetVersion(p),
         Listed(v)' => Latest(v).compared \subseteq Latest(v)'.compared
  PROVE  ChangelogFollows(v, p)'
<1> SUFFICES ASSUME Listed(v)', p = Latest(v)'.previous, p # NoVersion,
                    p \notin Latest(v)'.changed
             PROVE  ChangelogFollows(v, p)'
  BY DEF ChangelogFollows
<1>1. Listed(v) /\ p = Latest(v).previous /\ p \notin Latest(v).changed
  BY DEF LatestErodes
<1>2. p \in Version
  BY <1>1, PreviousOfListed
<1>3. GetVersion(p)' = GetVersion(p)
  BY <1>2
<1>4. ChangelogFollows(v, p)
  BY Changelogs
<1>5. CASE << p, GetVersion(p) >> \in Latest(v).compared
  BY <1>3, <1>5 DEF ChangelogFollows
<1>6. CASE \E b \in Build : /\ build[b].phase \in {"committed", "failed"}
                            /\ build[b].version = p
                            /\ build[b].revision = GetVersion(p)
  BY <1>3, <1>6 DEF ChangelogFollows, Orders
<1> QED
  BY <1>1, <1>4, <1>5, <1>6 DEF ChangelogFollows

LEMMA LinksStayLive ==
  ASSUME VersionInvariant, PreviousVersionIsLive,
         \A w \in Version : LiveRevisions(w)' \subseteq LiveRevisions(w),
         \A w \in Version : \A r \in LiveRevisions(w)' : \A q \in Version :
           published'[w][r].previous = q =>
             /\ published[w][r].previous = q
             /\ published'[w][r].changed = published[w][r].changed
             /\ LiveRevisions(q) # {} => LiveRevisions(q)' # {},
         \A w \in Version : \A r \in LiveRevisions(w)' :
           published'[w][r].previous \in Version \cup {NoVersion}
  PROVE  PreviousVersionIsLive'
<1>1. ASSUME NEW w \in Version, NEW r \in LiveRevisions(w)', NEW row, row = published'[w][r],
             NEW q, q = row.previous, q # NoVersion, q \notin row.changed
      PROVE  LiveRevisions(q)' # {}
  <2>1. q \in Version /\ published'[w][r].previous = q
    BY <1>1
  <2>2. r \in LiveRevisions(w) /\ published[w][r].previous = q
        /\ q \notin published[w][r].changed
    BY <1>1, <2>1
  <2>3. LiveRevisions(q) # {}
    BY <1>1, <2>2, LiveLinks DEF LinkIsLive
  <2> QED
    BY <2>1, <2>3
<1> QED
  BY <1>1, LiveLinks DEF LinkIsLive, LiveRevisions

LEMMA SameLinksAreLive ==
  ASSUME VersionInvariant, TypeOK', SameRevisions, PreviousVersionIsLive
  PROVE  PreviousVersionIsLive'
<1>1. TypeOK
  BY DEF VersionInvariant
<1>2. \A w \in Version : LiveRevisions(w)' = LiveRevisions(w)
  BY <1>1, SameLiveRevisions
<1>3. ASSUME NEW w \in Version, NEW r \in LiveRevisions(w)'
      PROVE  /\ published'[w][r].previous = published[w][r].previous
             /\ published'[w][r].changed = published[w][r].changed
             /\ published'[w][r].previous \in Version \cup {NoVersion}
  <2>1. r \in 1..Len(published[w]) /\ published[w][r] \in Revision
    BY <1>1, <1>2, GetVersionType, RowsAreRevisions
  <2> QED
    BY <2>1 DEF SameRevisions, SameRevision, Eroded, Revision
<1> QED
  BY <1>2, <1>3, LinksStayLive

LEMMA SameRevisionsKeepLinks ==
  ASSUME LinkInvariant, VersionInvariant', SameRevisions, outdated' = outdated,
         RequestStaysValid', PatchStaysValid', ChangelogsFollow',
         OnePackage => SearchStaysValid'
  PROVE  LinkInvariant'
<1>1. VersionInvariant /\ TypeOK /\ TypeOK'
  BY DEF LinkInvariant, VersionInvariant
<1>2. \A w \in Version : Kept(w)
  BY <1>1, SameRevisionsAreKept
<1>3. PreviousVersionIsLive'
  BY <1>1, SameLinksAreLive DEF LinkInvariant
<1>4. ReleaseFollowsRelease'
  <2>1. ASSUME HandlersInTime', NEW v \in Version, NEW p PROVE ReleaseFollows(v, p)'
    BY <1>1, <1>2, <2>1, ReleaseStillFollows DEF LinkInvariant, HandlersInTime
  <2> QED
    BY <2>1, Releases
<1>5. OnePackage => PreviousVersionsAcyclic'
  BY <1>2, AcyclicStays DEF LinkInvariant, Kept
<1> QED
  BY <1>3, <1>4, <1>5 DEF LinkInvariant

-----------------------------------------------------------------------------
(***************************************************************************)
(* Steps of a publication before its revision is stored.                   *)
(***************************************************************************)
LEMMA UnchangedRevisions ==
  published' = published => SameRevisions
BY DEF SameRevisions, SameRevision, Eroded

LEMMA UnchangedRowsKeepChangelogs ==
  ASSUME LinkInvariant, VersionInvariant', UNCHANGED << published, outdated >>, Orders
  PROVE  ChangelogsFollow'
<1>1. VersionInvariant /\ TypeOK /\ TypeOK'
  BY DEF LinkInvariant, VersionInvariant
<1>2. \A w \in Version : Kept(w)
  BY <1>1, UnchangedRowsAreKept
<1>3. ASSUME HandlersInTime', NEW v \in Version, NEW p PROVE ChangelogFollows(v, p)'
  <2>1. Latest(v)'.compared = Latest(v).compared
    BY DEF Latest
  <2> QED
    BY <1>1, <1>2, <1>3, <2>1, ChangelogStillFollows DEF LinkInvariant, HandlersInTime, Kept
<1> QED
  BY <1>3, Changelogs

LEMMA SameBuildIsKept ==
  ASSUME LinkInvariant, VersionInvariant', SameRevisions, NEW b \in Build, NEW d,
         Continues(build[b], d, {})
  PROVE  RequestHolds(d)' /\ (OnePackage => SearchHolds(d)')
<1>1. VersionInvariant /\ TypeOK /\ TypeOK' /\ build[b] \in BuildState
  BY DEF LinkInvariant, VersionInvariant, TypeOK
<1>2. \A w \in Version : Kept(w)
  BY <1>1, SameRevisionsAreKept
<1>3. ResultIsValid(b) /\ RequestHolds(build[b]) /\ (OnePackage => SearchHolds(build[b]))
  BY <1>1, ValidResults, Requests, Searches DEF LinkInvariant, VersionInvariant
<1>4. RequestHolds(d)'
  BY <1>1, <1>2, <1>3, RequestStillHolds DEF ResultIsValid
<1>5. OnePackage => SearchHolds(d)'
  BY <1>2, <1>3, SearchStillHolds DEF Kept
<1> QED
  BY <1>4, <1>5

LEMMA LinksAfterRequestSteps ==
  ASSUME LinkInvariant, VersionInvariant', UNCHANGED << published, admin, outdated >>,
         NEW b \in Build, build[b].phase \notin {"committed", "failed"},
         \A c \in Build \ {b} : build'[c] = build[c],
         \A d : d = build'[b] => RequestHolds(d)' /\ (OnePackage => SearchHolds(d)')
  PROVE  LinkInvariant'
<1>1. VersionInvariant /\ TypeOK' /\ SameRevisions /\ Orders
  BY UnchangedRevisions DEF LinkInvariant, VersionInvariant, Orders
<1>2. ASSUME NEW c \in Build, NEW d, d = build'[c]
      PROVE  RequestHolds(d)' /\ (OnePackage => SearchHolds(d)')
  <2>1. CASE c = b
    BY <1>2, <2>1
  <2>2. CASE c # b
    <3>1. Continues(build[c], d, {})
      BY <1>2, <2>2 DEF Continues
    <3> QED
      BY <1>1, <3>1, SameBuildIsKept
  <2> QED
    BY <2>1, <2>2
<1>3. RequestStaysValid' /\ (OnePackage => SearchStaysValid')
  BY <1>2, Requests, Searches
<1>4. PatchStaysValid'
  <2>1. ASSUME NEW a \in Admin, NEW c, c = admin'[a] PROVE PatchHolds(c)'
    BY <1>1, <2>1, SamePatchesStayValid DEF LinkInvariant
  <2> QED
    BY <2>1, Patches
<1>5. ChangelogsFollow'
  BY <1>1, UnchangedRowsKeepChangelogs
<1> QED
  BY <1>1, <1>3, <1>4, <1>5, SameRevisionsKeepLinks

(***************************************************************************)
(* A cycle through a new version would go on from its previous version     *)
(* through versions that the search for cycles has visited.                *)
(***************************************************************************)
LEMMA SearchOfRequest ==
  ASSUME TypeOK, PreviousVersionsAcyclic, OnePackage, NEW v \in Version, NEW p \in Version,
         ~CheckPreviousVersionDependencyCycle(v, p), NEW cycle \in SUBSET Version,
         v \in cycle, p \in cycle, Linked(cycle \ {v}, cycle)
  PROVE  \E w \in cycle \ {v} : Latest(w).changed \cap cycle # {}
<1>1. PICK visited :
        /\ NameOf[p] \in visited /\ NameOf[v] \notin visited
        /\ \A name \in visited : PreviousNames(PackageOf[v], name) \subseteq visited
  BY DEF CheckPreviousVersionDependencyCycle
<1> DEFINE rest == {w \in cycle : NameOf[w] \in visited}
<1>2. rest \subseteq cycle \ {v} /\ p \in rest
  BY <1>1
<1>3. ASSUME NEW w \in rest PROVE Listed(w) /\ Latest(w).previous \in rest
  <2>1. w \in cycle \ {v} /\ NameOf[w] \in visited
    BY <1>2
  <2>2. Listed(w) /\ Latest(w).previous \in cycle
    BY <2>1 DEF Linked
  <2>3. PackageOf[w] = PackageOf[v] /\ Latest(w).previous # NoVersion
    BY <2>1, <2>2, VersionAssumption DEF OnePackage
  <2>4. NameOf[Latest(w).previous] \in PreviousNames(PackageOf[v], NameOf[w])
    BY <2>1, <2>2, <2>3 DEF PreviousNames
  <2> QED
    BY <1>1, <2>1, <2>2, <2>4
<1> HIDE DEF rest
<1>4. PICK w \in rest : Latest(w).changed \cap rest # {}
  BY <1>2, <1>3 DEF PreviousVersionsAcyclic, Linked
<1> QED
  BY <1>2, <1>4

LEMMA LinksAfterPublishVersion ==
  ASSUME LinkInvariant, VersionInvariant', NEW b \in Build, NEW v \in Version,
         NEW s \in Status, NEW p \in Version \cup {NoVersion}, PublishVersion(b, v, s, p)
  PROVE  LinkInvariant'
<1>1. TypeOK
  BY DEF LinkInvariant, VersionInvariant
<1>2. /\ build[b].phase = "none" /\ UNCHANGED << published, admin, outdated >>
      /\ RequestAccepted(v, s, p)
  BY DEF PublishVersion
<1>3. \A c \in Build \ {b} : build'[c] = build[c]
  BY <1>1 DEF PublishVersion, TypeOK
<1>4. PICK d : d = build'[b]
  OBVIOUS
<1>5. d = [NotRequested EXCEPT !.phase = "requested", !.version = v,
                               !.status = s, !.previous = p]
  BY <1>1, <1>4 DEF PublishVersion, TypeOK
<1>6. /\ d.phase = "requested" /\ d.version = v /\ d.status = s /\ d.previous = p
      /\ d.changed = {}
  BY <1>5 DEF NotRequested
<1>7. RequestHolds(d)
  BY <1>2, <1>6 DEF RequestHolds, RequestAccepted, CheckNoReleaseDependentVersions,
     GetVersionsByPreviousVersion, LiveStatus
<1>8. RequestHolds(d)'
  BY <1>2, <1>7 DEF RequestHolds, LiveStatus, GetVersion, LiveRevisions, Listed, Latest
<1>9. ASSUME OnePackage PROVE SearchHolds(d)'
  <2>1. ASSUME NEW cycle \in SUBSET Version, v \in cycle, p \in cycle,
               Linked(cycle \ {v}, cycle)
        PROVE  \E w \in cycle \ {v} : Latest(w).changed \cap cycle # {}
    <3>1. p \in Version /\ ~CheckPreviousVersionDependencyCycle(v, p)
      BY <1>2, <2>1, VersionAssumption DEF RequestAccepted
    <3> QED
      BY <1>1, <1>9, <2>1, <3>1, SearchOfRequest DEF LinkInvariant
  <2>2. SearchHolds(d)
    BY <1>6, <2>1 DEF SearchHolds
  <2> QED
    BY <1>2, <2>2 DEF SearchHolds, Linked, Listed, Latest
<1> QED
  BY <1>2, <1>3, <1>4, <1>8, <1>9, LinksAfterRequestSteps

LEMMA BuildAdvances ==
  ASSUME published' = published, NEW c, NEW d, c.phase \in {"requested", "built"},
         d.version = c.version, d.previous = c.previous, d.status = c.status,
         d.changed = c.changed, d.phase \in {"built", "checked"},
         d.previous # NoVersion /\ d.previous \notin d.changed =>
           d.against = GetVersion(d.previous),
         RequestHolds(c), OnePackage => SearchHolds(c)
  PROVE  RequestHolds(d)' /\ (OnePackage => SearchHolds(d)')
<1>1. RequestHolds(d)
  BY DEF RequestHolds
<1>2. OnePackage => SearchHolds(d)
  BY DEF SearchHolds
<1>3. RequestHolds(d)'
  BY <1>1 DEF RequestHolds, LiveStatus, GetVersion, LiveRevisions, Listed, Latest
<1>4. OnePackage => SearchHolds(d)'
  BY <1>2 DEF SearchHolds, Linked, Listed, Latest
<1> QED
  BY <1>3, <1>4

LEMMA LinksAfterBuildVersion ==
  ASSUME LinkInvariant, VersionInvariant', NEW b \in Build, NEW e \in BOOLEAN,
         NEW x \in BOOLEAN, BuildVersion(b, e, x)
  PROVE  LinkInvariant'
<1> DEFINE against == IF build[b].previous = NoVersion THEN 0
                      ELSE GetVersion(build[b].previous)
<1>1. TypeOK /\ build[b] \in BuildState
  BY DEF LinkInvariant, VersionInvariant, TypeOK
<1>2. build[b].phase = "requested" /\ UNCHANGED << published, admin, outdated >>
  BY DEF BuildVersion
<1>3. \A c \in Build \ {b} : build'[c] = build[c]
  BY <1>1 DEF BuildVersion, TypeOK
<1>4. ASSUME NEW d, d = build'[b]
      PROVE  RequestHolds(d)' /\ (OnePackage => SearchHolds(d)')
  <2>1. d = [build[b] EXCEPT !.phase = "built", !.errors = e, !.against = against,
                             !.changelogErrors = x]
    BY <1>1, <1>4 DEF BuildVersion, TypeOK
  <2>2. against = IF build[b].previous = NoVersion THEN 0 ELSE GetVersion(build[b].previous)
    OBVIOUS
  <2> HIDE DEF against
  <2>3. /\ d.phase = "built" /\ d.version = build[b].version /\ d.status = build[b].status
        /\ d.previous = build[b].previous /\ d.changed = build[b].changed
        /\ d.against = against
    BY <1>1, <2>1 DEF BuildState
  <2>4. RequestHolds(build[b]) /\ (OnePackage => SearchHolds(build[b]))
    BY Requests, Searches DEF LinkInvariant
  <2> QED
    BY <1>2, <2>2, <2>3, <2>4, BuildAdvances
<1> QED
  BY <1>2, <1>3, <1>4, LinksAfterRequestSteps

LEMMA LinksAfterCheckResult ==
  ASSUME LinkInvariant, VersionInvariant', NEW b \in Build, CheckResult(b)
  PROVE  LinkInvariant'
<1>1. TypeOK /\ build[b] \in BuildState
  BY DEF LinkInvariant, VersionInvariant, TypeOK
<1>2. build[b].phase = "built" /\ UNCHANGED << published, admin, outdated >>
  BY DEF CheckResult
<1>3. \A c \in Build \ {b} : build'[c] = build[c]
  BY <1>1 DEF CheckResult, TypeOK
<1>4. ASSUME NEW d, d = build'[b]
      PROVE  RequestHolds(d)' /\ (OnePackage => SearchHolds(d)')
  <2>1. d = [build[b] EXCEPT !.phase = "checked",
               !.revision = GetVersionIncludingDeleted(build[b].version) + 1]
    BY <1>1, <1>4 DEF CheckResult, TypeOK
  <2>2. /\ d.phase = "checked" /\ d.version = build[b].version /\ d.status = build[b].status
        /\ d.previous = build[b].previous /\ d.changed = build[b].changed
        /\ d.against = build[b].against
    BY <1>1, <2>1 DEF BuildState
  <2>3. RequestHolds(build[b]) /\ (OnePackage => SearchHolds(build[b]))
    BY Requests, Searches DEF LinkInvariant
  <2>4. d.previous # NoVersion /\ d.previous \notin d.changed =>
          d.against = GetVersion(d.previous)
    BY <1>2, <2>2, <2>3 DEF RequestHolds
  <2> QED
    BY <1>2, <2>2, <2>3, <2>4, BuildAdvances
<1> QED
  BY <1>2, <1>3, <1>4, LinksAfterRequestSteps

LEMMA LinksAfterRefuseResult ==
  ASSUME LinkInvariant, VersionInvariant', NEW b \in Build, RefuseResult(b)
  PROVE  LinkInvariant'
<1>1. TypeOK /\ build[b] \in BuildState
  BY DEF LinkInvariant, VersionInvariant, TypeOK
<1>2. build[b].phase = "built" /\ UNCHANGED << published, admin, outdated >>
  BY DEF RefuseResult
<1>3. build'[b].phase = "refused" /\ \A c \in Build \ {b} : build'[c] = build[c]
  BY <1>1 DEF RefuseResult, TypeOK, BuildState
<1>4. \A d : d = build'[b] => RequestHolds(d)' /\ SearchHolds(d)'
  BY <1>3 DEF RequestHolds, SearchHolds
<1> QED
  BY <1>2, <1>3, <1>4, LinksAfterRequestSteps

-----------------------------------------------------------------------------
(***************************************************************************)
(* Changelog builds.                                                       *)
(***************************************************************************)
LEMMA KeptBuilds ==
  ASSUME LinkInvariant, VersionInvariant', SameRevisions,
         \A b \in Build : \/ build'[b] = build[b]
                          \/ build'[b].phase \in {"done", "failed"}
  PROVE  RequestStaysValid' /\ (OnePackage => SearchStaysValid')
<1>1. ASSUME NEW b \in Build, NEW d, d = build'[b]
      PROVE  RequestHolds(d)' /\ (OnePackage => SearchHolds(d)')
  <2>1. CASE build'[b] = build[b]
    <3>1. Continues(build[b], d, {})
      BY <1>1, <2>1 DEF Continues
    <3> QED
      BY <3>1, SameBuildIsKept
  <2>2. CASE build'[b].phase \in {"done", "failed"}
    BY <1>1, <2>2 DEF RequestHolds, SearchHolds
  <2> QED
    BY <2>1, <2>2
<1> QED
  BY <1>1, Requests, Searches

LEMMA KeptPatches ==
  ASSUME LinkInvariant, VersionInvariant', SameRevisions, admin' = admin
  PROVE  PatchStaysValid'
<1>1. ASSUME NEW a \in Admin, NEW c, c = admin'[a] PROVE PatchHolds(c)'
  BY <1>1, SamePatchesStayValid DEF LinkInvariant, VersionInvariant
<1> QED
  BY <1>1, Patches

LEMMA ComparedAfterReCalculate ==
  ASSUME TypeOK, NEW b \in Build, NEW v, v = build[b].version, NEW r, r = build[b].revision,
         NEW ordered \in SUBSET GetVersionsByPreviousVersion(v),
         published' = OrderChangelogs(ordered, v, r), NEW w \in Version, Listed(w)
  PROVE  /\ Latest(w).compared \subseteq Latest(w)'.compared
         /\ w \in ordered => << v, r >> \in Latest(w)'.compared
<1> DEFINE n == Len(published[w])
           row == published[w][n]
<1>1. n \in 1..n /\ row \in Revision /\ Latest(w) = row /\ DOMAIN published[w] = 1..n
  BY ListedVersion, RowsAreRevisions DEF Latest
<1>2. CASE w \notin ordered
  <2>1. published'[w] = published[w]
    BY <1>2 DEF OrderChangelogs
  <2> QED
    BY <1>2, <2>1 DEF Latest
<1>3. CASE w \in ordered
  <2>1. published'[w] = [published[w] EXCEPT ![n] =
                           [row EXCEPT !.compared = @ \cup {<< v, r >>}]]
    BY <1>3 DEF OrderChangelogs
  <2>2. published'[w][n].compared = row.compared \cup {<< v, r >>} /\ Len(published'[w]) = n
    BY <1>1, <2>1, RowsAreRevisions DEF Revision
  <2> QED
    BY <1>1, <2>2 DEF Latest
<1> QED
  BY <1>2, <1>3

LEMMA LinksAfterReCalculateChangelogs ==
  ASSUME LinkInvariant, VersionInvariant', NEW b \in Build, ReCalculateChangelogs(b)
  PROVE  LinkInvariant'
<1>1. /\ VersionInvariant /\ TypeOK /\ TypeOK' /\ SameRevisions
      /\ UNCHANGED << admin, outdated >> /\ build[b].phase = "committed"
  BY RowsAfterReCalculateChangelogs
     DEF LinkInvariant, VersionInvariant, ReCalculateChangelogs
<1>2. \A w \in Version : Kept(w)
  BY <1>1, SameRevisionsAreKept
<1>3. PICK v, r : v = build[b].version /\ r = build[b].revision
  OBVIOUS
<1>4. PICK ordered \in SUBSET GetVersionsByPreviousVersion(v) :
        /\ published' = OrderChangelogs(ordered, v, r)
        /\ build' = [build EXCEPT ![b].phase =
             IF ordered = GetVersionsByPreviousVersion(v) THEN "done" ELSE "failed"]
  BY <1>3 DEF ReCalculateChangelogs
<1>5. /\ build'[b].version = v /\ build'[b].revision = r
      /\ build'[b].phase = IF ordered = GetVersionsByPreviousVersion(v)
                           THEN "done" ELSE "failed"
      /\ \A c \in Build \ {b} : build'[c] = build[c]
  BY <1>1, <1>3, <1>4 DEF TypeOK, BuildState
<1>6. RequestStaysValid' /\ (OnePackage => SearchStaysValid') /\ PatchStaysValid'
  BY <1>1, <1>5, KeptBuilds, KeptPatches
<1>7. ASSUME HandlersInTime', NEW w \in Version, NEW p, Listed(w)', p = Latest(w)'.previous,
             p # NoVersion, p \notin Latest(w)'.changed
      PROVE  \/ << p, GetVersion(p)' >> \in Latest(w)'.compared
             \/ \E c \in Build : /\ build'[c].phase \in {"committed", "failed"}
                                 /\ build'[c].version = p
                                 /\ build'[c].revision = GetVersion(p)'
  <2>1. Listed(w) /\ p = Latest(w).previous /\ p \notin Latest(w).changed
    BY <1>2, <1>7 DEF Kept, LatestErodes
  <2>2. HandlersInTime
    BY <1>1, <1>7 DEF HandlersInTime
  <2>3. p \in Version
    BY <1>1, <1>7, <2>1, <2>2, PreviousOfListed DEF LinkInvariant
  <2>4. GetVersion(p)' = GetVersion(p)
    BY <1>2, <2>3 DEF Kept
  <2>5. /\ Latest(w).compared \subseteq Latest(w)'.compared
        /\ w \in ordered => << v, r >> \in Latest(w)'.compared
    BY <1>1, <1>3, <1>4, <2>1, ComparedAfterReCalculate
  <2>6. CASE << p, GetVersion(p) >> \in Latest(w).compared
    BY <2>4, <2>5, <2>6
  <2>7. ASSUME NEW c \in Build, build[c].phase \in {"committed", "failed"},
               build[c].version = p, build[c].revision = GetVersion(p)
        PROVE  \/ << p, GetVersion(p)' >> \in Latest(w)'.compared
               \/ \E k \in Build : /\ build'[k].phase \in {"committed", "failed"}
                                   /\ build'[k].version = p
                                   /\ build'[k].revision = GetVersion(p)'
    <3>1. CASE c # b
      BY <1>5, <2>4, <2>7, <3>1
    <3>2. CASE c = b
      <4>1. v = p /\ r = GetVersion(p) /\ w \in GetVersionsByPreviousVersion(v)
        BY <1>3, <2>1, <2>7, <3>2 DEF GetVersionsByPreviousVersion
      <4>2. CASE ordered = GetVersionsByPreviousVersion(v)
        BY <2>4, <2>5, <4>1, <4>2
      <4>3. CASE ordered # GetVersionsByPreviousVersion(v)
        BY <1>5, <2>4, <4>1, <4>3
      <4> QED
        BY <4>2, <4>3
    <3> QED
      BY <3>1, <3>2
  <2>8. ChangelogFollows(w, p)
    BY <2>2, Changelogs DEF LinkInvariant
  <2> QED
    BY <1>7, <2>1, <2>6, <2>7, <2>8 DEF ChangelogFollows
<1>8. ChangelogsFollow'
  BY <1>7, Changelogs DEF ChangelogFollows
<1> QED
  BY <1>1, <1>6, <1>8, SameRevisionsKeepLinks

LEMMA LinksAfterPublishChanges ==
  ASSUME LinkInvariant, VersionInvariant', NEW v \in Version, NEW r \in DOMAIN published[v],
         NEW key \in published[v][r].compared, NEW x \in BOOLEAN, PublishChanges(v, r, key, x)
  PROVE  LinkInvariant'
<1>1. /\ VersionInvariant /\ TypeOK /\ TypeOK' /\ SameRevisions
      /\ UNCHANGED << build, admin, outdated >>
  BY RowsAfterPublishChanges DEF LinkInvariant, VersionInvariant, PublishChanges
<1>2. \A w \in Version : Kept(w)
  BY <1>1, SameRevisionsAreKept
<1>3. RequestStaysValid' /\ (OnePackage => SearchStaysValid') /\ PatchStaysValid' /\ Orders
  BY <1>1, KeptBuilds, KeptPatches DEF Orders
<1>4. ASSUME NEW w \in Version, Listed(w)
      PROVE  Latest(w)'.compared = Latest(w).compared
  <2> DEFINE keys == IF x THEN published[v][r].changelogErrors \cup {key}
                     ELSE published[v][r].changelogErrors \ {key}
             row == [published[v][r] EXCEPT !.changelogErrors = keys]
  <2>1. CASE w # v
    <3>1. published'[w] = published[w]
      BY <1>1, <2>1 DEF PublishChanges, TypeOK
    <3> QED
      BY <3>1 DEF Latest
  <2>2. CASE w = v
    <3>1. /\ published[v] \in Seq(Revision) /\ r \in 1..Len(published[v])
          /\ Len(published[v]) \in 1..Len(published[v]) /\ published[v][r] \in Revision
      BY <1>1, <1>4, <2>2, RowsAreRevisions, ListedVersion
    <3>2. published'[v] = [published[v] EXCEPT ![r] = row]
      BY <1>1, <3>1 DEF PublishChanges, TypeOK
    <3>3. row.compared = published[v][r].compared
      BY <3>1 DEF Revision
    <3> HIDE DEF row
    <3>4. /\ Len(published'[v]) = Len(published[v])
          /\ \A n \in 1..Len(published[v]) :
               published'[v][n].compared = published[v][n].compared
      BY <3>1, <3>2, <3>3
    <3> QED
      BY <2>2, <3>1, <3>4 DEF Latest
  <2> QED
    BY <2>1, <2>2
<1>5. ASSUME HandlersInTime', NEW w \in Version, NEW p PROVE ChangelogFollows(w, p)'
  <2>1. Listed(w)' => Latest(w).compared \subseteq Latest(w)'.compared
    BY <1>2, <1>4 DEF Kept, LatestErodes
  <2> QED
    BY <1>1, <1>2, <1>3, <1>5, <2>1, ChangelogStillFollows
       DEF LinkInvariant, HandlersInTime, Kept
<1>6. ChangelogsFollow'
  BY <1>5, Changelogs
<1> QED
  BY <1>1, <1>3, <1>6, SameRevisionsKeepLinks

-----------------------------------------------------------------------------
(***************************************************************************)
(* Status changes that have been checked.                                  *)
(***************************************************************************)
LEMMA LinksAfterCheckPatch ==
  ASSUME LinkInvariant, VersionInvariant', NEW a \in Admin, NEW v \in Version,
         NEW s \in Status, CheckPatch(a, v, s)
  PROVE  LinkInvariant'
<1>1. /\ VersionInvariant /\ TypeOK /\ TypeOK' /\ UNCHANGED << published, build, outdated >>
      /\ GetVersion(v) # 0 /\ PatchAccepted(v, s)
  BY DEF LinkInvariant, VersionInvariant, CheckPatch
<1>2. SameRevisions /\ Orders
  BY <1>1, UnchangedRevisions DEF Orders
<1>3. \A c \in Admin \ {a} : admin'[c] = admin[c]
  BY <1>1 DEF CheckPatch, TypeOK
<1>4. ASSUME NEW c \in Admin, NEW d, d = admin'[c] PROVE PatchHolds(d)'
  <2>1. CASE c # a
    BY <1>1, <1>2, <1>3, <1>4, <2>1, SamePatchesStayValid DEF LinkInvariant
  <2>2. CASE c = a
    <3>1. d = [ phase |-> "checked", version |-> v, status |-> s, overtaken |-> FALSE ]
      BY <1>1, <1>4, <2>2 DEF CheckPatch, TypeOK
    <3>2. d.version = v /\ d.status = s
      BY <3>1
    <3>3. PatchHolds(d)
      BY <1>1, <3>2 DEF PatchHolds, PatchAccepted, LiveStatus, LivePrevious,
         CheckNoReleaseDependentVersions, GetVersionsByPreviousVersion
    <3>4. ASSUME NEW w
          PROVE  /\ GetVersion(w)' = GetVersion(w) /\ LiveStatus(w)' = LiveStatus(w)
                 /\ LivePrevious(w)' = LivePrevious(w)
                 /\ Listed(w)' = Listed(w) /\ Latest(w)' = Latest(w)
      BY <1>1 DEF LiveStatus, LivePrevious, GetVersion, LiveRevisions, Listed, Latest
    <3> QED
      BY <3>3, <3>4 DEF PatchHolds
  <2> QED
    BY <2>1, <2>2
<1>5. PatchStaysValid'
  BY <1>4, Patches
<1>6. RequestStaysValid' /\ (OnePackage => SearchStaysValid') /\ ChangelogsFollow'
  BY <1>1, <1>2, KeptBuilds, UnchangedRowsKeepChangelogs
<1> QED
  BY <1>1, <1>2, <1>5, <1>6, SameRevisionsKeepLinks

-----------------------------------------------------------------------------
(***************************************************************************)
(* CreateVersionWithData, in time or not: the revision is a new row, or    *)
(* replaces one.                                                           *)
(***************************************************************************)
StoredAt(b, v, k) ==
  /\ k \in 1..Len(published[v]) + 1
  /\ Len(published'[v]) = IF k = Len(published[v]) + 1 THEN Len(published[v]) + 1
                                                       ELSE Len(published[v])
  /\ \A r \in 1..Len(published[v]) : r # k => published'[v][r] = published[v][r]
  /\ published'[v][k].previous = build[b].previous
  /\ published'[v][k].changed = build[b].changed
  /\ published'[v][k].deleted = FALSE

LEMMA RevisionIsStored ==
  ASSUME TypeOK, CheckedResultStaysValid, NEW b \in Build, CreateVersionWithData(b),
         NEW v, v = build[b].version
  PROVE  /\ v \in Version /\ Len(published[v]) \in Nat
         /\ \A w \in Version \ {v} : published'[w] = published[w]
         /\ \E k : StoredAt(b, v, k)
<1> DEFINE c == build[b]
           n == Len(published[v])
           stored == c.revision \in DOMAIN published[v]
           former == IF stored THEN published[v][c.revision]
                     ELSE [builds |-> {}, compared |-> {}, changelogErrors |-> {}]
           key == {<< c.previous, c.against >>}
           newCompared == IF c.against = 0 THEN {} ELSE key
           newErrors == IF c.changelogErrors THEN key ELSE {}
           row == [ status |-> c.status, previous |-> c.previous, errors |-> c.errors,
                    deleted |-> FALSE, builds |-> {b} \cup former.builds,
                    compared |-> former.compared \cup newCompared,
                    changelogErrors |-> (former.changelogErrors \ key) \cup newErrors,
                    changed |-> c.changed ]
<1>1. v \in Version
  BY DEF CreateVersionWithData, CheckedResultStaysValid
<1>2. published[v] \in Seq(Revision) /\ n \in Nat /\ DOMAIN published[v] = 1..n
  BY <1>1, RowsAreRevisions
<1>3. published' = [published EXCEPT ![v] = InsertOrUpdate(@, b)]
  BY DEF CreateVersionWithData
<1>4. /\ published'[v] = InsertOrUpdate(published[v], b)
      /\ \A w \in Version \ {v} : published'[w] = published[w]
  BY <1>1, <1>3 DEF TypeOK
<1>5. InsertOrUpdate(published[v], b)
        = IF stored THEN [published[v] EXCEPT ![c.revision] = row]
                    ELSE Append(published[v], row)
  BY DEF InsertOrUpdate
<1>6. row.previous = c.previous /\ row.changed = c.changed /\ row.deleted = FALSE
  OBVIOUS
<1> HIDE DEF row
<1>7. CASE stored
  <2>1. PICK k \in 1..n : k = c.revision
    BY <1>2, <1>7
  <2>2. /\ Len(published'[v]) = n /\ published'[v][k] = row
        /\ \A r \in 1..n : r # k => published'[v][r] = published[v][r]
    BY <1>2, <1>4, <1>5, <1>7, <2>1
  <2>3. k \in 1..n + 1 /\ k # n + 1
    BY <1>2, <2>1
  <2> QED
    BY <1>1, <1>2, <1>4, <1>6, <2>2, <2>3 DEF StoredAt
<1>8. CASE ~stored
  <2>1. published'[v] = Append(published[v], row)
    BY <1>4, <1>5, <1>8
  <2>2. /\ Len(published'[v]) = n + 1 /\ published'[v][n + 1] = row
        /\ \A r \in 1..n : published'[v][r] = published[v][r]
    BY <1>2, <2>1
  <2>3. n + 1 \in 1..n + 1
    BY <1>2
  <2> QED
    BY <1>1, <1>2, <1>4, <1>6, <2>2, <2>3 DEF StoredAt
<1> QED
  BY <1>7, <1>8

LEMMA LatestAfterCreateVersionWithData ==
  ASSUME TypeOK, TypeOK', CheckedResultStaysValid, NEW b \in Build, CreateVersionWithData(b),
         NEW v, v = build[b].version
  PROVE  \/ LatestErodes(v)
         \/ Latest(v)'.previous = build[b].previous /\ Latest(v)'.changed = build[b].changed
<1> DEFINE n == Len(published[v])
<1>1. v \in Version /\ n \in Nat /\ \E k : StoredAt(b, v, k)
  BY RevisionIsStored
<1>2. PICK k \in 1..n + 1 :
           /\ Len(published'[v]) = IF k = n + 1 THEN n + 1 ELSE n
           /\ \A r \in 1..n : r # k => published'[v][r] = published[v][r]
           /\ published'[v][k].previous = build[b].previous
           /\ published'[v][k].changed = build[b].changed
  BY <1>1 DEF StoredAt
<1>3. CASE k = Len(published'[v])
  BY <1>2, <1>3 DEF Latest
<1>4. CASE k # Len(published'[v])
  <2>1. Len(published'[v]) = n /\ n \in 1..n /\ k # n
    BY <1>1, <1>2, <1>4
  <2>2. published'[v][n] = published[v][n]
    BY <1>2, <2>1
  <2>3. Listed(v)' => Listed(v)
    BY <1>1, <2>1, <2>2, RowsAreRevisions DEF Listed
  <2> QED
    BY <2>1, <2>2, <2>3 DEF LatestErodes, Latest
<1> QED
  BY <1>3, <1>4

LEMMA BuildsAfterCreateVersionWithData ==
  ASSUME TypeOK, CheckedResultStaysValid, NEW b \in Build, CreateVersionWithData(b),
         NEW v, v = build[b].version
  PROVE  /\ v \in Version
         /\ build'[b] = [build[b] EXCEPT !.phase = "committed"]
         /\ build'[b].phase = "committed" /\ build'[b].version = v
         /\ build'[b].revision = build[b].revision
         /\ \A c \in Build \ {b} : build'[c] = OvertakeBuilds(v, Build \ {b})[c]
         /\ Orders
<1> DEFINE overtaken == OvertakeBuilds(v, Build \ {b})
<1>1. v \in Version /\ build[b] \in BuildState /\ build[b].phase = "checked"
  BY DEF CreateVersionWithData, CheckedResultStaysValid, TypeOK
<1>2. /\ overtaken \in [Build -> BuildState]
      /\ build' = [overtaken EXCEPT ![b].phase = "committed"]
  BY <1>1, OvertakenTypes DEF CreateVersionWithData
<1>3. /\ overtaken[b] = build[b]
      /\ \A c \in Build : build[c].phase \in {"committed", "failed"} =>
           overtaken[c] = build[c]
  BY DEF OvertakeBuilds
<1> HIDE DEF overtaken
<1>4. /\ build'[b] = [build[b] EXCEPT !.phase = "committed"]
      /\ \A c \in Build \ {b} : build'[c] = overtaken[c]
  BY <1>2, <1>3
<1>5. /\ build'[b].phase = "committed" /\ build'[b].version = v
      /\ build'[b].revision = build[b].revision
  BY <1>1, <1>4 DEF BuildState
<1>6. Orders
  BY <1>1, <1>3, <1>4 DEF Orders
<1> QED
  BY <1>1, <1>4, <1>5, <1>6 DEF overtaken

(***************************************************************************)
(* After a change of v the other builds and status changes stay valid.     *)
(***************************************************************************)
LEMMA BuildsAfterChange ==
  ASSUME LinkInvariant, TypeOK', NEW v \in Version, NEW others, NEW b \in Build, b \in others,
         \A w \in Version \ {v} : Kept(w), NEW d, d = OvertakeBuilds(v, others)[b]
  PROVE  RequestHolds(d)' /\ (OnePackage => SearchHolds(d)')
<1>1. VersionInvariant /\ TypeOK /\ build[b] \in BuildState
  BY DEF LinkInvariant, VersionInvariant, TypeOK
<1>2. ResultIsValid(b) /\ RequestHolds(build[b]) /\ (OnePackage => SearchHolds(build[b]))
  BY <1>1, ValidResults, Requests, Searches DEF LinkInvariant, VersionInvariant
<1>3. Continues(build[b], d, {v})
  BY <1>1, OvertakenBuildContinues
<1>4. \A w \in Version \ {v} : LatestErodes(w)
  BY DEF Kept
<1>5. RequestHolds(d)'
  BY <1>1, <1>2, <1>3, RequestStillHolds DEF ResultIsValid
<1>6. OnePackage => SearchHolds(d)'
  BY <1>2, <1>3, <1>4, SearchStillHolds
<1> QED
  BY <1>5, <1>6

LEMMA LinksAfterChange ==
  ASSUME LinkInvariant, VersionInvariant', PreviousVersionIsLive', NEW v \in Version,
         \A w \in Version \ {v} : Kept(w), HandlersInTime' => HandlersInTime,
         RequestStaysValid', OnePackage => SearchStaysValid',
         \A a \in Admin : admin'[a] \in {OvertakeAdmins[a], Idle}, Orders,
         \A w \in Version \ {v} : Listed(w)' =>
           Latest(w).compared \subseteq Latest(w)'.compared,
         OnePackage => PreviousVersionsAcyclic',
         HandlersInTime' =>
           \A w \in Version : \A p : w = v \/ p = v =>
             ReleaseFollows(w, p)' /\ ChangelogFollows(w, p)'
  PROVE  LinkInvariant'
<1>1. VersionInvariant /\ TypeOK
  BY DEF LinkInvariant, VersionInvariant
<1>2. PatchStaysValid'
  BY <1>1, OvertakenChecks
<1>3. ASSUME HandlersInTime', NEW w \in Version, NEW p
      PROVE  ReleaseFollows(w, p)' /\ ChangelogFollows(w, p)'
  <2>1. CASE w = v \/ p = v
    BY <1>3, <2>1
  <2>2. CASE w # v /\ p # v
    <3>1. Kept(w) /\ (p \in Version => Kept(p))
      BY <2>2
    <3>2. ReleaseFollows(w, p)'
      BY <1>1, <1>3, <3>1, ReleaseStillFollows DEF LinkInvariant
    <3>3. ChangelogFollows(w, p)'
      BY <1>1, <1>3, <2>2, <3>1, ChangelogStillFollows DEF LinkInvariant, Kept
    <3> QED
      BY <3>2, <3>3
  <2> QED
    BY <2>1, <2>2
<1>4. ReleaseFollowsRelease' /\ ChangelogsFollow'
  BY <1>3, Releases, Changelogs
<1> QED
  BY <1>2, <1>4 DEF LinkInvariant

LEMMA LiveLinksAfterCreateVersionWithData ==
  ASSUME LinkInvariant, TypeOK', NEW b \in Build, CreateVersionWithData(b)
  PROVE  PreviousVersionIsLive'
<1>1. PICK v : v = build[b].version
  OBVIOUS
<1>2. /\ TypeOK /\ CheckedResultStaysValid /\ build[b] \in BuildState
      /\ build[b].phase = "checked" /\ build[b].previous # v
  BY <1>1, ValidResults
     DEF LinkInvariant, VersionInvariant, TypeOK, CreateVersionWithData, ResultIsValid
<1> DEFINE n == Len(published[v])
<1>3. /\ v \in Version /\ n \in Nat
      /\ \A w \in Version \ {v} : published'[w] = published[w]
      /\ \E k : StoredAt(b, v, k)
  BY <1>1, <1>2, RevisionIsStored
<1>4. PICK k \in 1..n + 1 :
           /\ Len(published'[v]) = IF k = n + 1 THEN n + 1 ELSE n
           /\ \A r \in 1..n : r # k => published'[v][r] = published[v][r]
           /\ published'[v][k].previous = build[b].previous
           /\ published'[v][k].changed = build[b].changed
           /\ published'[v][k].deleted = FALSE
  BY <1>3 DEF StoredAt
<1>5. \A w \in Version : DOMAIN published[w] = 1..Len(published[w])
  BY <1>2, RowsAreRevisions
<1>6. DOMAIN published'[v] = 1..Len(published'[v]) /\ k \in 1..Len(published'[v])
  BY <1>3, <1>4, NextRowsAreRevisions
<1>7. ASSUME NEW q \in Version, LiveRevisions(q) # {} PROVE LiveRevisions(q)' # {}
  <2>1. CASE q = v
    BY <1>4, <1>6, <2>1 DEF LiveRevisions
  <2>2. CASE q # v
    BY <1>3, <1>7, <2>2 DEF LiveRevisions
  <2> QED
    BY <2>1, <2>2
<1>8. ASSUME NEW w \in Version, NEW r \in LiveRevisions(w)', NEW row, row = published'[w][r],
             row.previous # NoVersion, row.previous \notin row.changed
      PROVE  LiveRevisions(row.previous)' # {}
  <2>1. r \in DOMAIN published'[w] /\ ~published'[w][r].deleted
    BY DEF LiveRevisions
  <2>2. CASE w = v /\ r = k
    <3>1. row.previous = build[b].previous /\ row.changed = build[b].changed
      BY <1>4, <1>8, <2>2
    <3>2. row.previous \in Version
      BY <1>2, <1>8, <3>1 DEF BuildState
    <3>3. RequestHolds(build[b])
      BY Requests DEF LinkInvariant
    <3>4. GetVersion(row.previous) # 0
      BY <1>2, <1>8, <3>1, <3>3 DEF RequestHolds
    <3> QED
      BY <1>2, <1>7, <3>2, <3>4, LiveMeansGetVersion
  <2>3. CASE ~(w = v /\ r = k)
    <3>1. r \in DOMAIN published[w] /\ published'[w][r] = published[w][r]
      BY <1>3, <1>4, <1>5, <1>6, <2>1, <2>3
    <3>2. r \in LiveRevisions(w) /\ row = published[w][r] /\ row \in Revision
      BY <1>2, <1>5, <1>8, <2>1, <3>1, RowsAreRevisions DEF LiveRevisions
    <3>3. row.previous \in Version /\ LiveRevisions(row.previous) # {}
      BY <1>8, <3>2, LiveLinks DEF LinkInvariant, LinkIsLive, Revision
    <3> QED
      BY <1>7, <3>3
  <2> QED
    BY <2>2, <2>3
<1> QED
  BY <1>8, LiveLinks DEF LinkIsLive

(***************************************************************************)
(* A cycle through the new revision is one that the search has excused.    *)
(***************************************************************************)
LEMMA AcyclicAfterCreateVersionWithData ==
  ASSUME LinkInvariant, TypeOK', OnePackage, NEW b \in Build, CreateVersionWithData(b)
  PROVE  PreviousVersionsAcyclic'
<1>1. PICK v : v = build[b].version
  OBVIOUS
<1>2. TypeOK /\ CheckedResultStaysValid /\ build[b].phase = "checked"
  BY DEF LinkInvariant, VersionInvariant, CreateVersionWithData
<1>3. /\ v \in Version
      /\ \A w \in Version \ {v} : published'[w] = published[w]
  BY <1>1, <1>2, RevisionIsStored
<1>4. \A w \in Version \ {v} : LatestErodes(w)
  BY <1>2, <1>3, UnchangedRowsAreKept DEF Kept
<1>5. CASE LatestErodes(v)
  BY <1>4, <1>5, AcyclicStays DEF LinkInvariant
<1>6. CASE Latest(v)'.previous = build[b].previous /\ Latest(v)'.changed = build[b].changed
  <2> SUFFICES ASSUME NEW cycle \in SUBSET Version, cycle # {}, Linked(cycle, cycle)'
               PROVE  \E w \in cycle : Latest(w)'.changed \cap cycle # {}
    BY DEF PreviousVersionsAcyclic
  <2>1. \A w \in cycle \ {v} : /\ Listed(w) /\ Latest(w).previous \in cycle
                               /\ Latest(w)'.changed = Latest(w).changed
    BY <1>4, VersionAssumption DEF Linked, LatestErodes
  <2>2. CASE v \notin cycle
    <3>1. PICK w \in cycle : Latest(w).changed \cap cycle # {}
      BY <2>1, <2>2 DEF LinkInvariant, PreviousVersionsAcyclic, Linked
    <3> QED
      BY <2>1, <2>2, <3>1
  <2>3. CASE v \in cycle
    <3>1. build[b].previous \in cycle
      BY <1>6, <2>3 DEF Linked
    <3>2. SearchHolds(build[b])
      BY Searches DEF LinkInvariant
    <3>3. PICK w \in cycle \ {v} :
                 w \in build[b].changed \/ Latest(w).changed \cap cycle # {}
      BY <1>1, <1>2, <2>1, <2>3, <3>1, <3>2 DEF SearchHolds, Linked
    <3> QED
      BY <1>6, <2>1, <2>3, <3>3
  <2> QED
    BY <2>2, <2>3
<1> QED
  BY <1>1, <1>2, <1>5, <1>6, LatestAfterCreateVersionWithData

(***************************************************************************)
(* In time, the new revision is the latest one.                            *)
(***************************************************************************)
LEMMA LinksAfterCreateVersionWithData ==
  ASSUME LinkInvariant, VersionInvariant', NEW b \in Build, CreateVersionWithData(b)
  PROVE  LinkInvariant'
<1>1. PICK v, p : v = build[b].version /\ p = build[b].previous
  OBVIOUS
<1>2. /\ VersionInvariant /\ TypeOK /\ TypeOK' /\ CheckedResultStaysValid
      /\ build[b] \in BuildState /\ build[b].phase = "checked" /\ p # v
      /\ RequestHolds(build[b])
  BY <1>1, ValidResults, Requests
     DEF LinkInvariant, VersionInvariant, TypeOK, CreateVersionWithData, ResultIsValid
<1>3. v \in Version /\ \A w \in Version \ {v} : published'[w] = published[w]
  BY <1>1, <1>2, RevisionIsStored
<1>4. \A w \in Version \ {v} : Kept(w)
  BY <1>2, <1>3, UnchangedRowsAreKept
<1>5. PreviousVersionIsLive' /\ (OnePackage => PreviousVersionsAcyclic')
  BY <1>2, LiveLinksAfterCreateVersionWithData, AcyclicAfterCreateVersionWithData
<1>6. /\ build'[b].phase = "committed" /\ build'[b].version = v
      /\ build'[b].revision = build[b].revision
      /\ \A c \in Build \ {b} : build'[c] = OvertakeBuilds(v, Build \ {b})[c]
      /\ Orders
  BY <1>1, <1>2, BuildsAfterCreateVersionWithData, ZenonT(30)
<1>7. RequestStaysValid' /\ (OnePackage => SearchStaysValid')
  <2>1. ASSUME NEW c \in Build, NEW d, d = build'[c]
        PROVE  RequestHolds(d)' /\ (OnePackage => SearchHolds(d)')
    <3>1. CASE c = b
      BY <1>6, <2>1, <3>1 DEF RequestHolds, SearchHolds
    <3>2. CASE c # b
      <4>1. d = OvertakeBuilds(v, Build \ {b})[c]
        BY <1>6, <2>1, <3>2
      <4> QED
        BY <1>2, <1>3, <1>4, <3>2, <4>1, BuildsAfterChange
    <3> QED
      BY <3>1, <3>2
  <2> QED
    BY <2>1, Requests, Searches
<1>8. /\ HandlersInTime' => HandlersInTime /\ ~build[b].overtaken
      /\ \A a \in Admin : admin'[a] \in {OvertakeAdmins[a], Idle}
  BY DEF CreateVersionWithData, HandlersInTime
<1>9. ASSUME HandlersInTime', NEW w \in Version, NEW q, w = v \/ q = v
      PROVE  ReleaseFollows(w, q)' /\ ChangelogFollows(w, q)'
  <2> DEFINE n == Len(published[v])
             row == published'[v][n + 1]
  <2>1. /\ n \in Nat /\ Len(published'[v]) = n + 1
        /\ row.status = build[b].status /\ row.previous = p /\ row.deleted = FALSE
        /\ row.changed = build[b].changed /\ build[b].revision = n + 1
        /\ row.compared = IF build[b].against = 0 THEN {} ELSE {<< p, build[b].against >>}
    BY <1>1, <1>2, <1>8, <1>9, RevisionIsAppended
  <2>2. Listed(v)' /\ Latest(v)' = row
    BY <1>2, <1>3, <2>1, NextRowsAreRevisions DEF Listed, Latest
  <2>3. GetVersion(v)' = n + 1 /\ LiveStatus(v)' = build[b].status
    BY <1>2, <1>3, <2>1, <2>2, NextListedVersion DEF LiveStatus
  <2> HIDE DEF row
  <2>4. CASE w = v
    <3>1. ASSUME q = p, q # NoVersion, q \notin build[b].changed
          PROVE  /\ Kept(q) /\ GetVersion(q) # 0 /\ build[b].against = GetVersion(q)
                 /\ build[b].status = "release" => LiveStatus(q) # "draft"
      <4>1. q \in Version \ {v}
        BY <1>1, <1>2, <3>1 DEF BuildState
      <4> QED
        BY <1>1, <1>2, <1>4, <3>1, <4>1 DEF RequestHolds
    <3>2. ReleaseFollows(w, q)'
      BY <2>1, <2>2, <2>4, <3>1 DEF ReleaseFollows, Kept
    <3>3. ChangelogFollows(w, q)'
      BY <2>1, <2>2, <2>4, <3>1 DEF ChangelogFollows, Kept
    <3> QED
      BY <3>2, <3>3
  <2>5. CASE w # v /\ q = v
    <3>1. Kept(w)
      BY <1>4, <2>5
    <3>2. ReleaseFollows(w, q)'
      <4> SUFFICES ASSUME Listed(w)', Latest(w)'.status = "release", v = Latest(w)'.previous,
                          v # NoVersion, w \notin build[b].changed
                   PROVE  build[b].status # "draft"
        BY <2>1, <2>2, <2>3, <2>5 DEF ReleaseFollows
      <4>1. Listed(w) /\ Latest(w).status = "release" /\ Latest(w).previous = v
        BY <3>1 DEF Kept, LatestErodes
      <4> QED
        BY <1>1, <1>2, <2>5, <4>1 DEF RequestHolds
    <3>3. ChangelogFollows(w, q)'
      BY <1>6, <2>1, <2>3, <2>5 DEF ChangelogFollows
    <3> QED
      BY <3>2, <3>3
  <2> QED
    BY <1>9, <2>4, <2>5
<1>10. \A w \in Version \ {v} : Latest(w)' = Latest(w)
  BY <1>3 DEF Latest
<1> QED
  BY <1>3, <1>4, <1>5, <1>6, <1>7, <1>8, <1>9, <1>10, LinksAfterChange

-----------------------------------------------------------------------------
(***************************************************************************)
(* PatchVersion changes the status of one row.                             *)
(***************************************************************************)
LEMMA RowsAfterPatchVersion ==
  ASSUME TypeOK, TypeOK', NEW a \in Admin, PatchVersion(a), NEW v \in Version,
         v = admin[a].version, GetVersion(v) # 0
  PROVE  /\ \A w \in Version \ {v} : published'[w] = published[w]
         /\ Len(published'[v]) = Len(published[v])
         /\ \A r \in 1..Len(published[v]) :
              /\ Eroded(v, r)
              /\ published'[v][r].previous = published[v][r].previous
              /\ published'[v][r].compared = published[v][r].compared
              /\ published'[v][r].deleted = published[v][r].deleted
         /\ published'[v][GetVersion(v)].status = admin[a].status
         /\ build' = OvertakeBuilds(v, Build)
         /\ outdated' = (outdated \/ admin[a].overtaken)
         /\ \A c \in Admin : admin'[c] \in {OvertakeAdmins[c], Idle}
<1> DEFINE n == GetVersion(v)
           row == [published[v][n] EXCEPT !.status = admin[a].status]
<1>1. /\ published' = [published EXCEPT ![v][n].status = admin[a].status]
      /\ build' = OvertakeBuilds(v, Build) /\ outdated' = (outdated \/ admin[a].overtaken)
      /\ admin' = [OvertakeAdmins EXCEPT ![a] = Idle]
  BY DEF PatchVersion
<1>2. /\ n \in 1..Len(published[v]) /\ published[v][n] \in Revision
      /\ published[v] \in Seq(Revision)
  BY GetVersionType, RowsAreRevisions
<1>3. published'[v] = [published[v] EXCEPT ![n] = row]
  BY <1>1 DEF TypeOK
<1>4. \A w \in Version \ {v} : published'[w] = published[w]
  BY <1>1 DEF TypeOK
<1>5. /\ row.status = admin[a].status /\ row.previous = published[v][n].previous
      /\ row.compared = published[v][n].compared /\ row.deleted = published[v][n].deleted
      /\ row.errors = published[v][n].errors /\ row.builds = published[v][n].builds
      /\ row.changed = published[v][n].changed
  BY <1>2 DEF Revision
<1> HIDE DEF row
<1>6. /\ Len(published'[v]) = Len(published[v])
      /\ \A r \in 1..Len(published[v]) :
           published'[v][r] = IF r = n THEN row ELSE published[v][r]
  BY <1>2, <1>3
<1>7. ASSUME NEW r \in 1..Len(published[v])
      PROVE  /\ Eroded(v, r)
             /\ published'[v][r].previous = published[v][r].previous
             /\ published'[v][r].compared = published[v][r].compared
             /\ published'[v][r].deleted = published[v][r].deleted
  BY <1>5, <1>6 DEF Eroded
<1>8. \A c \in Admin : admin'[c] \in {OvertakeAdmins[c], Idle}
  BY <1>1, OvertakenTypes
<1>9. published'[v][n].status = admin[a].status
  BY <1>2, <1>5, <1>6
<1> QED
  BY <1>1, <1>4, <1>6, <1>7, <1>8, <1>9

LEMMA LinksAfterPatchOfLive ==
  ASSUME LinkInvariant, VersionInvariant', NEW a \in Admin, PatchVersion(a),
         NEW v \in Version, v = admin[a].version, GetVersion(v) # 0
  PROVE  LinkInvariant'
<1>1. /\ VersionInvariant /\ TypeOK /\ TypeOK' /\ admin[a].phase = "checked"
      /\ admin[a] \in AdminState
  BY DEF LinkInvariant, VersionInvariant, TypeOK, PatchVersion
<1>2. /\ \A w \in Version \ {v} : published'[w] = published[w]
      /\ Len(published'[v]) = Len(published[v])
      /\ \A r \in 1..Len(published[v]) :
           /\ Eroded(v, r)
           /\ published'[v][r].previous = published[v][r].previous
           /\ published'[v][r].compared = published[v][r].compared
           /\ published'[v][r].deleted = published[v][r].deleted
      /\ published'[v][GetVersion(v)].status = admin[a].status
      /\ build' = OvertakeBuilds(v, Build) /\ outdated' = (outdated \/ admin[a].overtaken)
      /\ \A c \in Admin : admin'[c] \in {OvertakeAdmins[c], Idle}
  BY <1>1, RowsAfterPatchVersion
<1>3. \A w \in Version \ {v} : Kept(w)
  BY <1>1, <1>2, UnchangedRowsAreKept
<1>4. LiveRevisions(v)' = LiveRevisions(v) /\ GetVersion(v)' = GetVersion(v)
  <2>1. LiveRevisions(v)' = LiveRevisions(v)
    BY <1>1, <1>2, RowsAreRevisions, NextRowsAreRevisions DEF LiveRevisions
  <2> QED
    BY <2>1 DEF GetVersion, Max
<1>5. /\ LatestErodes(v)
      /\ Listed(v)' => Latest(v)' = published'[v][Len(published[v])]
  BY <1>1, <1>2, LatestErodesInRows
<1>6. \A w \in Version : LatestErodes(w) /\ GetVersion(w)' = GetVersion(w)
  BY <1>3, <1>4, <1>5 DEF Kept
<1>7. PreviousVersionIsLive'
  <2>1. \A w \in Version : LiveRevisions(w)' = LiveRevisions(w)
    BY <1>2, <1>4 DEF LiveRevisions
  <2>2. ASSUME NEW w \in Version, NEW r \in LiveRevisions(w)'
        PROVE  /\ published'[w][r].previous = published[w][r].previous
               /\ published'[w][r].changed = published[w][r].changed
               /\ published'[w][r].previous \in Version \cup {NoVersion}
    <3>1. r \in 1..Len(published[w]) /\ published[w][r] \in Revision
      BY <1>1, <2>1, GetVersionType, RowsAreRevisions
    <3>2. /\ published'[w][r].previous = published[w][r].previous
          /\ published'[w][r].changed = published[w][r].changed
      <4>1. CASE w = v
        BY <1>2, <3>1, <4>1 DEF Eroded
      <4>2. CASE w # v
        BY <1>2, <4>2
      <4> QED
        BY <4>1, <4>2
    <3> QED
      BY <3>1, <3>2 DEF Revision
  <2> QED
    BY <1>1, <2>1, <2>2, LinksStayLive DEF LinkInvariant
<1>8. RequestStaysValid' /\ (OnePackage => SearchStaysValid') /\ Orders
  <2>1. ASSUME NEW c \in Build, NEW d, d = build'[c]
        PROVE  RequestHolds(d)' /\ (OnePackage => SearchHolds(d)')
    BY <1>1, <1>2, <1>3, <2>1, BuildsAfterChange
  <2>2. Orders
    BY <1>2 DEF Orders, OvertakeBuilds
  <2> QED
    BY <2>1, <2>2, Requests, Searches
<1>9. OnePackage => PreviousVersionsAcyclic'
  BY <1>6, AcyclicStays DEF LinkInvariant
<1>10. ASSUME NEW w \in Version, Listed(w)'
       PROVE  Latest(w)'.compared = Latest(w).compared
  <2>1. Listed(w)
    BY <1>6, <1>10 DEF LatestErodes
  <2>2. Len(published[w]) \in 1..Len(published[w])
    BY <1>1, <2>1, ListedVersion
  <2> QED
    BY <1>2, <1>5, <1>10, <2>2 DEF Latest
<1>11. HandlersInTime' => HandlersInTime /\ ~admin[a].overtaken
  BY <1>2 DEF HandlersInTime
<1>12. ASSUME HandlersInTime', NEW w \in Version, NEW p, w = v \/ p = v
       PROVE  ReleaseFollows(w, p)'
  <2> SUFFICES ASSUME Listed(w)', Latest(w)'.status = "release", p = Latest(w)'.previous,
                      p # NoVersion, p \notin Latest(w)'.changed, w \notin Latest(p)'.changed
               PROVE  LiveStatus(p)' # "draft"
    BY DEF ReleaseFollows
  <2>1. /\ Listed(w) /\ p = Latest(w).previous /\ p \notin Latest(w).changed
        /\ HandlersInTime /\ PatchHolds(admin[a])
    BY <1>6, <1>11, <1>12, Patches DEF LatestErodes, LinkInvariant
  <2>2. p \in Version /\ Listed(p) /\ GetVersion(p) # 0
    BY <1>1, <2>1, PreviousOfListed DEF LinkInvariant
  <2>3. Listed(v) /\ GetVersion(v) = Len(published[v]) /\ Len(published[v]) # 0
    BY <1>1, <1>12, <2>1, <2>2, ListedVersion
  <2>4. LiveStatus(v)' = admin[a].status
    BY <1>2, <1>4 DEF LiveStatus
  <2>5. CASE p = v /\ w = v
    <3>1. Latest(v)'.status = LiveStatus(v)'
      BY <1>4, <1>5, <2>3, <2>5 DEF LiveStatus
    <3> QED
      BY <2>5, <3>1
  <2>6. CASE p # v /\ w = v
    <3>1. admin[a].status = "release"
      <4>1. Latest(v)' = published'[v][GetVersion(v)]
        BY <1>5, <2>3, <2>6
      <4> QED
        BY <1>2, <2>6, <4>1
    <3>2. p = LivePrevious(v)
      BY <2>1, <2>3, <2>6 DEF LivePrevious, Latest
    <3>3. LiveStatus(p) # "draft"
      BY <1>1, <1>11, <1>12, <2>1, <2>2, <3>1, <3>2 DEF PatchHolds
    <3> QED
      BY <1>3, <2>2, <2>6, <3>3 DEF Kept
  <2>7. CASE p = v /\ w # v
    <3>1. Latest(w).status = "release"
      BY <1>3, <2>7 DEF Kept
    <3>2. Latest(v)'.changed = Latest(v).changed
      <4>1. Len(published[v]) \in 1..Len(published[v])
        BY <1>1, <2>3, ListedVersion
      <4>2. Eroded(v, Len(published[v])) /\ Len(published'[v]) = Len(published[v])
        BY <1>2, <4>1
      <4> QED
        BY <4>2 DEF Latest, Eroded
    <3>3. LiveStatus(v) # "draft"
      BY <2>1, <2>7, <3>1, <3>2, Releases DEF LinkInvariant, ReleaseFollows
    <3>4. LiveStatus(v) \in Status
      BY <1>1, <2>3, ListedVersion DEF LiveStatus, Latest, Revision
    <3>5. admin[a].status # "draft"
      BY <1>1, <1>11, <1>12, <2>1, <2>7, <3>1, <3>3, <3>4 DEF PatchHolds, Status
    <3> QED
      BY <2>4, <2>7, <3>5
  <2> QED
    BY <1>12, <2>5, <2>6, <2>7
<1>13. ASSUME HandlersInTime', NEW w \in Version, NEW p
       PROVE  ChangelogFollows(w, p)'
  BY <1>1, <1>6, <1>8, <1>10, <1>11, <1>13, ChangelogStillFollows DEF LinkInvariant
<1> QED
  BY <1>2, <1>3, <1>7, <1>8, <1>9, <1>10, <1>11, <1>12, <1>13, LinksAfterChange

LEMMA LinksAfterPatchVersion ==
  ASSUME LinkInvariant, VersionInvariant', NEW a \in Admin, PatchVersion(a)
  PROVE  LinkInvariant'
<1>1. PICK v \in Version : v = admin[a].version
  BY DEF PatchVersion, LinkInvariant, VersionInvariant, CheckedPatchStaysValid
<1>2. CASE GetVersion(v) # 0
  BY <1>1, <1>2, LinksAfterPatchOfLive
<1>3. CASE GetVersion(v) = 0
  <2>1. /\ VersionInvariant /\ TypeOK /\ TypeOK' /\ UNCHANGED << published, build, outdated >>
        /\ admin' = [admin EXCEPT ![a] = Idle]
    BY <1>1, <1>3 DEF PatchVersion, LinkInvariant, VersionInvariant
  <2>2. SameRevisions /\ Orders
    BY <2>1, UnchangedRevisions DEF Orders
  <2>3. ASSUME NEW c \in Admin, NEW d, d = admin'[c] PROVE PatchHolds(d)'
    <3>1. CASE c # a
      <4>1. admin'[c] = admin[c]
        BY <2>1, <3>1 DEF TypeOK
      <4> QED
        BY <2>1, <2>2, <2>3, <4>1, SamePatchesStayValid DEF LinkInvariant
    <3>2. CASE c = a
      <4>1. d = Idle
        BY <2>1, <2>3, <3>2 DEF TypeOK
      <4> QED
        BY <4>1 DEF Idle, PatchHolds
    <3> QED
      BY <3>1, <3>2
  <2>4. PatchStaysValid'
    BY <2>3, Patches
  <2>5. RequestStaysValid' /\ (OnePackage => SearchStaysValid') /\ ChangelogsFollow'
    BY <2>1, <2>2, KeptBuilds, UnchangedRowsKeepChangelogs
  <2> QED
    BY <2>1, <2>2, <2>4, <2>5, SameRevisionsKeepLinks
<1> QED
  BY <1>2, <1>3

-----------------------------------------------------------------------------
(***************************************************************************)
(* Deletions.                                                              *)
(***************************************************************************)
LEMMA LinksInRowsAfterDelete ==
  ASSUME TypeOK, NEW v \in Version, NEW gone \in SUBSET LiveRevisions(v), Delete(v, gone),
         NEW w \in Version, NEW r \in 1..Len(published[w])
  PROVE  /\ published'[w][r].compared = published[w][r].compared
         /\ published'[w][r].previous
              = IF gone = LiveRevisions(v) /\ published[w][r].previous = v
                THEN NoVersion ELSE published[w][r].previous
<1> DEFINE marked == MarkDeleted(v, gone)
<1>1. /\ published[w] \in Seq(Revision) /\ published[w][r] \in Revision
      /\ DOMAIN published[w] = 1..Len(published[w])
  BY RowsAreRevisions
<1>2. /\ marked \in [Version -> Seq(Revision)]
      /\ Len(marked[w]) = Len(published[w])
      /\ w # v => marked[w] = published[w]
      /\ w = v => marked[w][r] = IF r \in gone THEN [published[v][r] EXCEPT !.deleted = TRUE]
                                               ELSE published[v][r]
  BY MarkedRows
<1> HIDE DEF marked
<1>3. /\ marked[w][r] \in Revision
      /\ marked[w][r].compared = published[w][r].compared
      /\ marked[w][r].previous = published[w][r].previous
  <2>1. marked[w][r] \in {published[w][r], [published[w][r] EXCEPT !.deleted = TRUE]}
    BY <1>2
  <2> QED
    BY <1>1, <2>1 DEF Revision
<1>4. DOMAIN marked[w] = 1..Len(published[w])
  BY <1>2
<1>5. CASE gone = LiveRevisions(v)
  <2>1. published' = ClearPreviousVersion(marked, v)
    BY <1>5 DEF Delete, marked
  <2>2. published'[w][r] = IF marked[w][r].previous = v
                           THEN [marked[w][r] EXCEPT !.previous = NoVersion]
                           ELSE marked[w][r]
    BY <1>4, <2>1 DEF ClearPreviousVersion
  <2> QED
    BY <1>3, <1>5, <2>2 DEF Revision
<1>6. CASE gone # LiveRevisions(v)
  <2>1. published' = marked
    BY <1>6 DEF Delete, marked
  <2> QED
    BY <1>3, <1>6, <2>1
<1> QED
  BY <1>5, <1>6

LEMMA LinksAfterDelete ==
  ASSUME LinkInvariant, VersionInvariant', NEW v \in Version,
         NEW gone \in SUBSET LiveRevisions(v), Delete(v, gone),
         gone = LiveRevisions(v) \/ Len(published[v]) \notin gone
  PROVE  LinkInvariant'
<1>1. /\ VersionInvariant /\ TypeOK /\ TypeOK' /\ build' = OvertakeBuilds(v, Build)
      /\ admin' = OvertakeAdmins /\ outdated' = outdated
  BY DEF LinkInvariant, VersionInvariant, Delete
<1>2. ASSUME NEW w \in Version
      PROVE  /\ Len(published'[w]) = Len(published[w])
             /\ DOMAIN published[w] = 1..Len(published[w])
             /\ DOMAIN published'[w] = 1..Len(published[w])
             /\ \A r \in 1..Len(published[w]) :
                  /\ published[w][r] \in Revision
                  /\ Eroded(w, r)
                  /\ published'[w][r].status = published[w][r].status
                  /\ published'[w][r].deleted
                       = (published[w][r].deleted \/ (w = v /\ r \in gone))
                  /\ published'[w][r].compared = published[w][r].compared
                  /\ published'[w][r].previous
                       = IF gone = LiveRevisions(v) /\ published[w][r].previous = v
                         THEN NoVersion ELSE published[w][r].previous
  BY <1>1, RowsAfterDelete, LinksInRowsAfterDelete, RowsAreRevisions, NextRowsAreRevisions
<1>3. ASSUME NEW w \in Version \ {v} PROVE Kept(w) /\ LiveRevisions(w)' = LiveRevisions(w)
  <2>1. \A r \in 1..Len(published[w]) : published'[w][r].deleted = published[w][r].deleted
    BY <1>2 DEF Revision
  <2> QED
    BY <1>1, <1>2, <2>1, KeptRows
<1>4. ASSUME NEW w \in Version
      PROVE  /\ LatestErodes(w)
             /\ Listed(w)' => Latest(w)' = published'[w][Len(published[w])]
  BY <1>1, <1>2, LatestErodesInRows
<1>5. LiveRevisions(v)' = LiveRevisions(v) \ gone
  BY <1>2 DEF LiveRevisions
<1>6. PreviousVersionIsLive'
  <2>1. \A w \in Version : LiveRevisions(w)' \subseteq LiveRevisions(w)
    BY <1>3, <1>5
  <2>2. ASSUME NEW w \in Version, NEW r \in LiveRevisions(w)'
        PROVE  r \in 1..Len(published[w])
    BY <1>1, <2>1, GetVersionType
  <2>3. ASSUME NEW w \in Version, NEW r \in LiveRevisions(w)'
        PROVE  published'[w][r].previous \in Version \cup {NoVersion}
    BY <1>2, <2>2 DEF Revision
  <2>4. ASSUME NEW w \in Version, NEW r \in LiveRevisions(w)', NEW q \in Version,
               published'[w][r].previous = q
        PROVE  /\ published[w][r].previous = q
               /\ published'[w][r].changed = published[w][r].changed
               /\ LiveRevisions(q) # {} => LiveRevisions(q)' # {}
    <3>1. /\ published[w][r].previous = q /\ ~(gone = LiveRevisions(v) /\ q = v)
          /\ published'[w][r].changed = published[w][r].changed
      BY <1>2, <2>2, <2>4, VersionAssumption DEF Eroded
    <3> QED
      BY <1>3, <1>5, <3>1
  <2> QED
    BY <1>1, <2>1, <2>3, <2>4, LinksStayLive DEF LinkInvariant
<1>7. RequestStaysValid' /\ (OnePackage => SearchStaysValid') /\ Orders
  <2>1. ASSUME NEW c \in Build, NEW d, d = build'[c]
        PROVE  RequestHolds(d)' /\ (OnePackage => SearchHolds(d)')
    BY <1>1, <1>3, <2>1, BuildsAfterChange
  <2>2. Orders
    BY <1>1 DEF Orders, OvertakeBuilds
  <2> QED
    BY <2>1, <2>2, Requests, Searches
<1>8. OnePackage => PreviousVersionsAcyclic'
  BY <1>4, AcyclicStays DEF LinkInvariant
<1>9. ASSUME NEW w \in Version, Listed(w)'
      PROVE  /\ Latest(w)'.compared = Latest(w).compared
             /\ gone = LiveRevisions(v) => w # v /\ Latest(w)'.previous # v
  <2>1. Listed(w)
    BY <1>4, <1>9 DEF LatestErodes
  <2>2. Len(published[w]) \in 1..Len(published[w])
    BY <1>1, <2>1, ListedVersion
  <2>3. Latest(w)'.compared = Latest(w).compared
    BY <1>2, <1>4, <1>9, <2>2 DEF Latest
  <2>4. ASSUME gone = LiveRevisions(v) PROVE w # v
    <3>1. LiveRevisions(v)' = {}
      BY <1>5, <2>4
    <3>2. Len(published'[w]) \in LiveRevisions(w)'
      BY <1>1, <1>9, NextListedVersion
    <3> QED
      BY <3>1, <3>2 DEF LiveRevisions
  <2>5. ASSUME gone = LiveRevisions(v) PROVE Latest(w)'.previous # v
    BY <1>2, <1>4, <1>9, <2>2, <2>5, VersionAssumption
  <2> QED
    BY <2>3, <2>4, <2>5
<1>10. HandlersInTime' => HandlersInTime
  BY <1>1 DEF HandlersInTime
<1>11. ASSUME HandlersInTime', gone # LiveRevisions(v) PROVE Kept(v)
  <2> DEFINE n == Len(published[v])
  <2>1. Listed(v)
    BY <1>1, <1>10, <1>11, LiveMeansListed
  <2>2. n \in 1..n /\ GetVersion(v) = n /\ n \notin gone /\ Len(published'[v]) = n
    BY <1>1, <1>2, <1>11, <2>1, ListedVersion
  <2>3. Listed(v)'
    <3>1. ~published'[v][n].deleted
      BY <1>2, <2>1, <2>2 DEF Listed
    <3>2. published'[v] # << >>
      BY <1>1, <2>2, NextRowsAreRevisions
    <3> QED
      BY <2>2, <3>1, <3>2 DEF Listed
  <2>4. GetVersion(v)' = n
    BY <1>1, <2>2, <2>3, NextListedVersion
  <2>5. LiveStatus(v)' = LiveStatus(v)
    BY <1>2, <2>2, <2>4 DEF LiveStatus
  <2>6. Latest(v)'.status = Latest(v).status /\ Latest(v)'.changed = Latest(v).changed
    BY <1>2, <2>2 DEF Latest, Eroded
  <2> QED
    BY <1>4, <2>2, <2>4, <2>5, <2>6 DEF Kept
<1>12. ASSUME HandlersInTime', NEW w \in Version, NEW p, w = v \/ p = v
       PROVE  ReleaseFollows(w, p)' /\ ChangelogFollows(w, p)'
  <2>1. CASE gone = LiveRevisions(v)
    BY <1>9, <1>12, <2>1 DEF ReleaseFollows, ChangelogFollows
  <2>2. CASE gone # LiveRevisions(v)
    <3>1. \A q \in Version : Kept(q)
      BY <1>3, <1>11, <1>12, <2>2
    <3>2. ReleaseFollows(w, p)'
      BY <1>1, <1>10, <1>12, <3>1, ReleaseStillFollows DEF LinkInvariant
    <3>3. ChangelogFollows(w, p)'
      BY <1>1, <1>7, <1>9, <1>10, <1>12, <3>1, ChangelogStillFollows DEF LinkInvariant, Kept
    <3> QED
      BY <3>2, <3>3
  <2> QED
    BY <2>1, <2>2
<1> QED
  BY <1>1, <1>3, <1>6, <1>7, <1>8, <1>9, <1>10, <1>12, LinksAfterChange

-----------------------------------------------------------------------------
(***************************************************************************)
(* The invariant.                                                          *)
(***************************************************************************)
LEMMA LinkInit == Init => LinkInvariant
<1> SUFFICES ASSUME Init PROVE LinkInvariant
  OBVIOUS
<1>1. VersionInvariant
  BY InvInit
<1>2. \A v \in Version : LiveRevisions(v) = {} /\ ~Listed(v)
  BY DEF Init, LiveRevisions, Listed
<1>3. PreviousVersionIsLive /\ ReleaseFollowsRelease /\ ChangelogsFollow
  BY <1>2 DEF PreviousVersionIsLive, ReleaseFollowsRelease, ChangelogsFollow
<1>4. RequestStaysValid /\ SearchStaysValid
  BY DEF Init, NotRequested, RequestStaysValid, SearchStaysValid
<1>5. PatchStaysValid
  BY DEF Init, Idle, PatchStaysValid
<1>6. PreviousVersionsAcyclic
  BY <1>2 DEF PreviousVersionsAcyclic, Linked
<1> QED
  BY <1>1, <1>3, <1>4, <1>5, <1>6 DEF LinkInvariant

LEMMA LinkStep == LinkInvariant /\ Next => LinkInvariant'
<1> SUFFICES ASSUME LinkInvariant, Next PROVE LinkInvariant'
  OBVIOUS
<1>1. VersionInvariant' /\ TypeOK
  BY InvStep DEF LinkInvariant, VersionInvariant
<1>2. ASSUME NEW b \in Build, Publish(b) PROVE LinkInvariant'
  BY <1>1, <1>2, LinksAfterPublishVersion, LinksAfterBuildVersion, LinksAfterCheckResult,
     LinksAfterRefuseResult, LinksAfterCreateVersionWithData,
     LinksAfterReCalculateChangelogs DEF Publish
<1>3. ASSUME NEW v \in Version, Compare(v) PROVE LinkInvariant'
  BY <1>1, <1>3, LinksAfterPublishChanges DEF Compare
<1>4. ASSUME NEW a \in Admin, Patch(a) PROVE LinkInvariant'
  BY <1>1, <1>4, LinksAfterCheckPatch, LinksAfterPatchVersion DEF Patch
<1>5. ASSUME NEW v \in Version, DeleteVersion(v) PROVE LinkInvariant'
  BY <1>1, <1>5, LinksAfterDelete DEF DeleteVersion
<1>6. ASSUME NEW v \in Version, NEW last \in DOMAIN published[v],
             DeleteVersionRevisions(v, last)
      PROVE  LinkInvariant'
  <2>1. CleanupCandidates(v, last) \in SUBSET LiveRevisions(v)
    BY DEF CleanupCandidates, OldRevisions
  <2>2. \/ CleanupCandidates(v, last) = LiveRevisions(v)
        \/ Len(published[v]) \notin CleanupCandidates(v, last)
    BY <1>1, CandidatesSpareTheLast
  <2> QED
    BY <1>1, <1>6, <2>1, <2>2, LinksAfterDelete DEF DeleteVersionRevisions
<1> QED
  BY <1>2, <1>3, <1>4, <1>5, <1>6 DEF Next, Remove

LEMMA LinkStutter == LinkInvariant /\ UNCHANGED vars => LinkInvariant'
<1> SUFFICES ASSUME LinkInvariant, UNCHANGED vars PROVE LinkInvariant'
  OBVIOUS
<1>1. VersionInvariant' /\ UNCHANGED << published, admin, build, outdated >>
  BY InvStutter DEF LinkInvariant, vars
<1>2. SameRevisions /\ Orders
  BY <1>1, UnchangedRevisions DEF Orders
<1>3. RequestStaysValid' /\ (OnePackage => SearchStaysValid') /\ PatchStaysValid'
  BY <1>1, <1>2, KeptBuilds, KeptPatches
<1>4. ChangelogsFollow'
  BY <1>1, <1>2, UnchangedRowsKeepChangelogs
<1> QED
  BY <1>1, <1>2, <1>3, <1>4, SameRevisionsKeepLinks

\* What a request has checked stays true, however long the build takes, of the versions
\* that were not changed since (PublishVersion, PublishPackage); what a status change
\* has checked stays true until anything is changed (VersionService.PatchVersion); and
\* the guarantees below hold.
THEOREM LinkInvariance == Spec => []LinkInvariant
<1>1. Init => LinkInvariant
  BY LinkInit
<1>2. LinkInvariant /\ [Next]_vars => LinkInvariant'
  BY LinkStep, LinkStutter
<1> QED
  BY <1>1, <1>2, PTL DEF Spec

\* Whatever is overtaken, the previous version of a live revision has a live revision of
\* its own, unless the previous version was changed while the revision was being built:
\* no publication is accepted after a deleted version, and the deletion of the last live
\* revision of a version clears all links to it (clearPreviousVersion).
THEOREM PreviousVersionsAreLive == Spec => []PreviousVersionIsLive
<1>1. LinkInvariant => PreviousVersionIsLive
  BY DEF LinkInvariant
<1> QED
  BY <1>1, LinkInvariance, PTL

\* While no handler relies on overtaken checks, a release follows a draft only when one
\* of the two versions was changed while the latest revision of the other was being
\* built: neither a publication nor a status change makes a release that follows a
\* draft, or a draft that a release follows (CheckNoReleaseDependentVersions).
THEOREM ReleasesFollowReleases == Spec => []ReleaseFollowsRelease
<1>1. LinkInvariant => ReleaseFollowsRelease
  BY DEF LinkInvariant
<1> QED
  BY <1>1, LinkInvariance, PTL

\* While no handler relies on overtaken checks, each version whose previous version was
\* not changed while it was being built is compared with the latest revision of that
\* version, unless the publication of that very revision has still to order the
\* comparison, or could not (the comparison that the builder sends along, and those
\* that reCalculateChangelogs orders).
THEOREM ChangelogsAlwaysFollow == Spec => []ChangelogsFollow
<1>1. LinkInvariant => ChangelogsFollow
  BY DEF LinkInvariant
<1> QED
  BY <1>1, LinkInvariance, PTL

\* Within one package, and whatever is overtaken, no version precedes itself, unless one
\* version of the cycle was changed while another one was being built: the search for
\* cycles of a request follows the names of the package of its version
\* (CheckPreviousVersionDependencyCycle; across packages it misses cycles, which the
\* run cycle shows).
THEOREM PreviousVersionsAreAcyclic ==
  ASSUME OnePackage
  PROVE  Spec => []PreviousVersionsAcyclic
<1>1. LinkInvariant => PreviousVersionsAcyclic
  BY DEF LinkInvariant
<1> QED
  BY <1>1, LinkInvariance, PTL

=============================================================================
