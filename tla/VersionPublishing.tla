--------------------------- MODULE VersionPublishing --------------------------
(* The versions of the packages of portal-backend (table published_version):  *)
(* how publications, status changes, deletions and the revisions cleanup job  *)
(* change them, and what guards the links from a version to its previous one. *)
(*                                                                            *)
(* A publication is long.  PublishVersion checks the request and stores a     *)
(* build; minutes later a builder has built it, and PublishPackage checks the *)
(* result again, with queries outside of any transaction, before              *)
(* CreateVersionWithData stores the revision in one; at last it orders        *)
(* changelog builds for the dependent versions.  The queue that carries the   *)
(* build is the module BuildQueue.                                            *)
(*                                                                            *)
(* A check is overtaken when another change commits between it and the change *)
(* it was made for.  Nothing in the code prevents that, and history records   *)
(* it: overtaken and outdated, of handlers that were overtaken between their  *)
(* own checks and their write; changed, of the other versions that were       *)
(* changed while a revision was being built.  The invariants say which of the *)
(* two each guarantee depends on.                                             *)
EXTENDS Naturals, FiniteSets, Sequences, FiniteSetsExt

CONSTANTS
  Version,      \* versions: a name in a package each
  PackageOf,    \* the package of a version
  NameOf,       \* the name of a version in its package
  NoVersion,    \* instead of a previous version
  Build,        \* publications that may be requested
  Admin,        \* requests that change a status, one after the other
  DeleteLastRevision,     \* cleanup.revisions.deleteLastRevision
  DeleteReleaseRevisions, \* cleanup.revisions.deleteReleaseRevisions
  MaxChanges    \* bound on status changes, deletions and cleanups

ASSUME VersionAssumption ==
  /\ NoVersion \notin Version
  /\ DeleteLastRevision \in BOOLEAN /\ DeleteReleaseRevisions \in BOOLEAN
  /\ MaxChanges \in Nat

ASSUME KeyAssumption ==
  \A v, w \in Version :
    PackageOf[v] = PackageOf[w] /\ NameOf[v] = NameOf[w] => v = w

VARIABLES
  published,  \* revisions of each version, deleted ones included
  build,      \* publications under way
  admin,      \* status changes under way
  changes,    \* status changes, deletions and cleanups so far
  outdated    \* history: a handler has relied on overtaken checks

vars == << published, build, admin, changes, outdated >>

Status == {"draft", "release"}

(* errors: of the documents.  builds: those whose content the revision holds. *)
(* compared: the revisions of previous versions with which it is compared, in *)
(* its own publication or by a changelog build ordered since;                 *)
(* changelogErrors: the comparisons that have errors.  changed: history, the  *)
(* other versions that were changed while the revision was being built.       *)
Revision ==
  [ status : Status, previous : Version \cup {NoVersion}, errors : BOOLEAN,
    deleted : BOOLEAN, builds : SUBSET Build,
    compared : SUBSET (Version \X Nat), changelogErrors : SUBSET (Version \X Nat),
    changed : SUBSET Version ]

(* none      not requested yet                                                *)
(* requested the request has been accepted, its build is queued or runs       *)
(* built     the result has reached the backend                               *)
(* checked   PublishPackage has checked the result                            *)
(* committed CreateVersionWithData has stored the revision                    *)
(* done      changelog builds are ordered; failed: only some of them          *)
(* refused   the result has been refused                                      *)
BuildPhase ==
  {"none", "requested", "built", "checked", "committed", "done", "failed", "refused"}

(* against: the revision of the previous version that the builder compared    *)
(* with; revision: the one that PublishPackage has computed.  changed and     *)
(* overtaken: since the request, and since PublishPackage has checked.        *)
BuildState ==
  [ phase : BuildPhase, version : Version \cup {NoVersion}, status : Status,
    previous : Version \cup {NoVersion}, errors : BOOLEAN, against : Nat,
    changelogErrors : BOOLEAN, revision : Nat, changed : SUBSET Version,
    overtaken : BOOLEAN ]

AdminState ==
  [ phase : {"idle", "checked"}, version : Version \cup {NoVersion},
    status : Status, overtaken : BOOLEAN ]

NotRequested ==
  [ phase |-> "none", version |-> NoVersion, status |-> "draft",
    previous |-> NoVersion, errors |-> FALSE, against |-> 0,
    changelogErrors |-> FALSE, revision |-> 0, changed |-> {}, overtaken |-> FALSE ]

Idle ==
  [ phase |-> "idle", version |-> NoVersion, status |-> "draft", overtaken |-> FALSE ]

TypeOK ==
  /\ published \in [Version -> Seq(Revision)]
  /\ build \in [Build -> BuildState]
  /\ admin \in [Admin -> AdminState]
  /\ changes \in 0..MaxChanges
  /\ outdated \in BOOLEAN

Init ==
  /\ published = [v \in Version |-> << >>]
  /\ build = [b \in Build |-> NotRequested]
  /\ admin = [a \in Admin |-> Idle]
  /\ changes = 0
  /\ outdated = FALSE

-------------------------------------------------------------------------------
(* Queries.                                                                   *)

LiveRevisions(v) == {r \in DOMAIN published[v] : ~published[v][r].deleted}

(* The latest revision that is not deleted; 0 when there is none.             *)
GetVersion(v) == IF LiveRevisions(v) = {} THEN 0 ELSE Max(LiveRevisions(v))

(* Mutant: deleted revisions are overlooked.                                  *)
GetVersionIncludingDeletedM(v) == GetVersion(v)

(* The latest revision of all; 0 when there is none.                          *)
GetVersionIncludingDeleted(v) == Len(published[v])

(* The latest revision of all is not deleted: what the queries that join with *)
(* max(revision) return of a version.                                         *)
Listed(v) ==
  /\ published[v] # << >>
  /\ ~published[v][Len(published[v])].deleted

Latest(v) == published[v][Len(published[v])]

(* Versions that name v as their previous version in their latest revision.   *)
GetVersionsByPreviousVersion(v) ==
  {w \in Version : Listed(w) /\ Latest(w).previous = v}

(* Revisions that name v as their previous version.                           *)
GetVersionRevisionsByPreviousVersion(v) ==
  {k \in UNION {{w} \X LiveRevisions(w) : w \in Version} :
     published[k[1]][k[2]].previous = v}

CheckNoReleaseDependentVersions(v) ==
  \A w \in GetVersionsByPreviousVersion(v) : Latest(w).status # "release"

(* Errors of the documents, or of the comparison with the latest revision of  *)
(* the previous version.  Deleted revisions are looked up, too.               *)
VersionHasAnyErrors(v, r) ==
  /\ r \in DOMAIN published[v]
  /\ LET row == published[v][r] IN
     \/ row.errors
     \/ /\ row.previous # NoVersion
        /\ << row.previous, GetVersion(row.previous) >> \in row.changelogErrors

(* Mutant: only the version itself is refused.                                *)
CheckPreviousVersionDependencyCycleM(v, p) == NameOf[p] = NameOf[v]

(* The search follows the names of previous versions within the package of    *)
(* the version to be published, whatever package a previous version is in.    *)
PreviousNames(pkg, name) ==
  {NameOf[Latest(w).previous] :
     w \in {u \in Version : /\ PackageOf[u] = pkg /\ NameOf[u] = name
                            /\ Listed(u) /\ Latest(u).previous # NoVersion}}

(* The search visits the names that every set has which has the name of p and, *)
(* with a name, its previous names: it meets v or ends without.               *)
CheckPreviousVersionDependencyCycle(v, p) ==
  LET Closed(names) ==
        \A name \in names : PreviousNames(PackageOf[v], name) \subseteq names
  IN \A visited \in SUBSET {NameOf[w] : w \in Version} :
       NameOf[p] \in visited /\ Closed(visited) => NameOf[v] \in visited

-------------------------------------------------------------------------------
(* A change commits: the checks of all others under way are overtaken.        *)

OvertakeBuilds(v, others) ==
  [b \in Build |->
     IF b \in others /\ build[b].phase \in {"requested", "built", "checked"}
     THEN [build[b] EXCEPT !.changed = @ \cup ({v} \ {build[b].version}),
                           !.overtaken = (build[b].phase = "checked")]
     ELSE build[b]]

OvertakeAdmins ==
  [a \in Admin |->
     IF admin[a].phase = "checked" THEN [admin[a] EXCEPT !.overtaken = TRUE]
     ELSE admin[a]]

-------------------------------------------------------------------------------
(* Publications.                                                              *)

(* Mutant: a draft is accepted before a release.                              *)
RequestAcceptedM(v, s, p) ==
  /\ p # v
  /\ p # NoVersion =>
       /\ GetVersion(p) # 0
       /\ ~(s = "release" /\ published[p][GetVersion(p)].status = "draft")
       /\ ~VersionHasAnyErrors(p, GetVersion(p))
       /\ ~CheckPreviousVersionDependencyCycle(v, p)

(* PublishVersion: the previous version must be there, free of errors and,    *)
(* for a release, not a draft; no cycle; no draft before a release.           *)
RequestAccepted(v, s, p) ==
  /\ p # v
  /\ p # NoVersion =>
       /\ GetVersion(p) # 0
       /\ ~(s = "release" /\ published[p][GetVersion(p)].status = "draft")
       /\ ~VersionHasAnyErrors(p, GetVersion(p))
       /\ ~CheckPreviousVersionDependencyCycle(v, p)
  /\ s = "draft" => CheckNoReleaseDependentVersions(v)

PublishVersion(b, v, s, p) ==
  /\ build[b].phase = "none"
  /\ RequestAccepted(v, s, p)
  /\ build' = [build EXCEPT
       ![b] = [NotRequested EXCEPT !.phase = "requested", !.version = v,
                                   !.status = s, !.previous = p]]
  /\ UNCHANGED << published, admin, changes, outdated >>

(* The builder compares the version with the latest revision that it gets of  *)
(* the previous one, and finds errors in the documents and the comparison, or *)
(* none.                                                                      *)
BuildVersion(b, e, x) ==
  LET p == build[b].previous
      against == IF p = NoVersion THEN 0 ELSE GetVersion(p) IN
  /\ build[b].phase = "requested"
  /\ x => against # 0
  /\ build' = [build EXCEPT
       ![b] = [@ EXCEPT !.phase = "built", !.errors = e, !.against = against,
                        !.changelogErrors = x]]
  /\ UNCHANGED << published, admin, changes, outdated >>

ResultHasErrors(b) == build[b].errors \/ build[b].changelogErrors

(* PublishPackage refuses a comparison with a version that has errors.  It may *)
(* be missing only when the previous version has been deleted.                *)
PreviousVersionRefused(b) ==
  LET c == build[b] IN
  /\ c.previous # NoVersion
  /\ \/ c.against = 0 /\ Listed(c.previous)
     \/ VersionHasAnyErrors(c.previous, GetVersionIncludingDeleted(c.previous))

(* Mutant: a broken version is accepted under its dependent versions.         *)
ResultRefusedM(b) ==
  \/ ResultHasErrors(b) /\ build[b].status = "release"
  \/ PreviousVersionRefused(b)

(* Mutant: a release is accepted with errors.                                 *)
ResultRefusedReleaseM(b) ==
  \/ /\ ResultHasErrors(b)
     /\ GetVersionRevisionsByPreviousVersion(build[b].version) # {}
  \/ PreviousVersionRefused(b)

(* PublishPackage up to CreateVersionWithData.                                *)
ResultRefused(b) ==
  \/ ResultHasErrors(b) /\ build[b].status = "release"
  \/ /\ ResultHasErrors(b)
     /\ GetVersionRevisionsByPreviousVersion(build[b].version) # {}
  \/ PreviousVersionRefused(b)

CheckResult(b) ==
  /\ build[b].phase = "built"
  /\ ~ResultRefused(b)
  /\ build' = [build EXCEPT
       ![b] = [@ EXCEPT
                 !.phase = "checked",
                 !.revision = GetVersionIncludingDeleted(build[b].version) + 1]]
  /\ UNCHANGED << published, admin, changes, outdated >>

RefuseResult(b) ==
  /\ build[b].phase = "built"
  /\ ResultRefused(b)
  /\ build' = [build EXCEPT ![b].phase = "refused"]
  /\ UNCHANGED << published, admin, changes, outdated >>

(* The rows of the build are inserted; a row with the same key is replaced,   *)
(* and what only the former build inserted stays.                             *)
InsertOrUpdate(revisions, b) ==
  LET c == build[b]
      stored == c.revision \in DOMAIN revisions
      former == IF stored THEN revisions[c.revision]
                ELSE [builds |-> {}, compared |-> {}, changelogErrors |-> {}]
      key == {<< c.previous, c.against >>}
      row == [ status |-> c.status, previous |-> c.previous, errors |-> c.errors,
               deleted |-> FALSE,
               builds |-> {b} \cup former.builds,
               compared |-> former.compared \cup (IF c.against = 0 THEN {} ELSE key),
               changelogErrors |-> (former.changelogErrors \ key)
                                     \cup (IF c.changelogErrors THEN key ELSE {}),
               changed |-> c.changed ]
  IN IF stored THEN [revisions EXCEPT ![c.revision] = row] ELSE Append(revisions, row)

CreateVersionWithData(b) ==
  LET v == build[b].version IN
  /\ build[b].phase = "checked"
  /\ published' = [published EXCEPT ![v] = InsertOrUpdate(@, b)]
  /\ build' = [OvertakeBuilds(v, Build \ {b}) EXCEPT ![b].phase = "committed"]
  /\ admin' = OvertakeAdmins
  /\ outdated' = (outdated \/ build[b].overtaken)
  /\ UNCHANGED changes

(* Mutant: drafts are left out.                                               *)
OrderChangelogsM(dependents, v, r) ==
  [w \in Version |->
     IF w \in dependents /\ Latest(w).status = "release"
     THEN [published[w] EXCEPT ![Len(published[w])].compared = @ \cup {<< v, r >>}]
     ELSE published[w]]

(* A changelog build is ordered for the latest revision of each dependent     *)
(* version, until one cannot be stored.                                       *)
OrderChangelogs(dependents, v, r) ==
  [w \in Version |->
     IF w \in dependents
     THEN [published[w] EXCEPT ![Len(published[w])].compared = @ \cup {<< v, r >>}]
     ELSE published[w]]

ReCalculateChangelogs(b) ==
  LET dependents == GetVersionsByPreviousVersion(build[b].version) IN
  /\ build[b].phase = "committed"
  /\ \E ordered \in SUBSET dependents :
       /\ published' = OrderChangelogs(ordered, build[b].version, build[b].revision)
       /\ build' = [build EXCEPT
            ![b].phase = IF ordered = dependents THEN "done" ELSE "failed"]
  /\ UNCHANGED << admin, changes, outdated >>

(* A changelog build, ordered or asked for again, has compared revision r of v *)
(* with key, and found errors or none.  Nobody asks for the status of v, or    *)
(* for the versions that depend on it.                                        *)
PublishChanges(v, r, key, x) ==
  /\ key \in published[v][r].compared
  /\ ~VersionHasAnyErrors(key[1], key[2])
  /\ published' = [published EXCEPT
       ![v][r].changelogErrors = IF x THEN @ \cup {key} ELSE @ \ {key}]
  /\ UNCHANGED << build, admin, changes, outdated >>

-------------------------------------------------------------------------------
(* Status changes.                                                            *)

(* Mutant: errors do not keep a version from becoming a release.              *)
PatchAcceptedM(v, s) ==
  LET row == published[v][GetVersion(v)]
      p == row.previous IN
  /\ s = "release" =>
       (p # NoVersion /\ GetVersion(p) # 0 =>
          published[p][GetVersion(p)].status # "draft")
  /\ s = "draft" /\ row.status = "release" => CheckNoReleaseDependentVersions(v)

(* Mutant: a release may become a draft under released dependent versions.    *)
PatchAcceptedDraftM(v, s) ==
  LET row == published[v][GetVersion(v)]
      p == row.previous IN
  s = "release" =>
    /\ ~VersionHasAnyErrors(v, GetVersion(v))
    /\ p # NoVersion /\ GetVersion(p) # 0 =>
         published[p][GetVersion(p)].status # "draft"

(* VersionService.PatchVersion: what it checks of the latest revision.        *)
PatchAccepted(v, s) ==
  LET row == published[v][GetVersion(v)]
      p == row.previous IN
  /\ s = "release" =>
       /\ ~VersionHasAnyErrors(v, GetVersion(v))
       /\ p # NoVersion /\ GetVersion(p) # 0 =>
            published[p][GetVersion(p)].status # "draft"
  /\ s = "draft" /\ row.status = "release" => CheckNoReleaseDependentVersions(v)

CheckPatch(a, v, s) ==
  /\ changes < MaxChanges
  /\ admin[a].phase = "idle"
  /\ GetVersion(v) # 0
  /\ PatchAccepted(v, s)
  /\ admin' = [admin EXCEPT ![a] = [ phase |-> "checked", version |-> v,
                                     status |-> s, overtaken |-> FALSE ]]
  /\ changes' = changes + 1
  /\ UNCHANGED << published, build, outdated >>

(* PublishedRepository.PatchVersion looks the latest revision up again.       *)
PatchVersion(a) ==
  LET v == admin[a].version
      r == GetVersion(v) IN
  /\ admin[a].phase = "checked"
  /\ IF r = 0
     THEN /\ admin' = [admin EXCEPT ![a] = Idle]
          /\ UNCHANGED << published, build, outdated >>
     ELSE /\ published' = [published EXCEPT ![v][r].status = admin[a].status]
          /\ build' = OvertakeBuilds(v, Build)
          /\ admin' = [OvertakeAdmins EXCEPT ![a] = Idle]
          /\ outdated' = (outdated \/ admin[a].overtaken)
  /\ UNCHANGED changes

-------------------------------------------------------------------------------
(* Deletions.                                                                 *)

MarkDeleted(v, gone) ==
  [published EXCEPT
     ![v] = [r \in DOMAIN @ |->
               IF r \in gone THEN [@[r] EXCEPT !.deleted = TRUE] ELSE @[r]]]

(* Mutant: only latest revisions are cleared.                                 *)
ClearPreviousVersionM(rows, v) ==
  [w \in Version |->
     [r \in DOMAIN rows[w] |->
        IF rows[w][r].previous = v /\ r = Len(rows[w])
        THEN [rows[w][r] EXCEPT !.previous = NoVersion] ELSE rows[w][r]]]

(* No revision, deleted or not, names v as its previous version any more.     *)
ClearPreviousVersion(rows, v) ==
  [w \in Version |->
     [r \in DOMAIN rows[w] |->
        IF rows[w][r].previous = v
        THEN [rows[w][r] EXCEPT !.previous = NoVersion] ELSE rows[w][r]]]

Delete(v, gone) ==
  /\ changes < MaxChanges
  /\ published' = IF gone = LiveRevisions(v)
                  THEN ClearPreviousVersion(MarkDeleted(v, gone), v)
                  ELSE MarkDeleted(v, gone)
  /\ build' = OvertakeBuilds(v, Build)
  /\ admin' = OvertakeAdmins
  /\ changes' = changes + 1
  /\ UNCHANGED outdated

DeleteVersion(v) ==
  /\ GetVersion(v) # 0
  /\ Delete(v, LiveRevisions(v))

(* The revisions up to the last one that is old enough; the job stops at the  *)
(* first one that it may not delete.                                          *)
OldRevisions(v, last) == {r \in LiveRevisions(v) : r <= last}

(* Mutant: the job goes on after a revision that it may not delete.           *)
CleanupCandidatesM(v, last) ==
  {r \in OldRevisions(v, last) :
     /\ r = GetVersion(v) => DeleteLastRevision
     /\ published[v][r].status = "release" => DeleteReleaseRevisions}

CleanupCandidates(v, last) ==
  {r \in OldRevisions(v, last) :
     \A q \in OldRevisions(v, r) :
       /\ q = GetVersion(v) => DeleteLastRevision
       /\ published[v][q].status = "release" => DeleteReleaseRevisions}

DeleteVersionRevisions(v, last) ==
  /\ CleanupCandidates(v, last) # {}
  /\ Delete(v, CleanupCandidates(v, last))

-------------------------------------------------------------------------------
Publish(b) ==
  \/ \E v \in Version, s \in Status, p \in Version \cup {NoVersion} :
       PublishVersion(b, v, s, p)
  \/ \E e, x \in BOOLEAN : BuildVersion(b, e, x)
  \/ CheckResult(b)
  \/ RefuseResult(b)
  \/ CreateVersionWithData(b)
  \/ ReCalculateChangelogs(b)

Patch(a) ==
  \/ \E v \in Version, s \in Status : CheckPatch(a, v, s)
  \/ PatchVersion(a)

Remove(v) ==
  \/ DeleteVersion(v)
  \/ \E last \in DOMAIN published[v] : DeleteVersionRevisions(v, last)

Compare(v) ==
  \E r \in DOMAIN published[v], x \in BOOLEAN :
    \E key \in published[v][r].compared : PublishChanges(v, r, key, x)

Next ==
  \/ \E b \in Build : Publish(b)
  \/ \E v \in Version : Compare(v)
  \/ \E a \in Admin : Patch(a)
  \/ \E v \in Version : Remove(v)

Spec == Init /\ [][Next]_vars

-------------------------------------------------------------------------------
(* Guarantees about errors and revisions.  They hold while no handler relies  *)
(* on overtaken checks, however long the builds take.                         *)

HandlersInTime == ~outdated

(* A version that has any revision left is listed: the queries that take the  *)
(* latest revision of all and drop it when it is deleted (dependent versions, *)
(* cycles) miss no live version.                                              *)
LiveVersionIsListed ==
  HandlersInTime => \A v \in Version : LiveRevisions(v) # {} => Listed(v)

(* A revision holds the content of one build: a version that is published     *)
(* again, after deletions too, gets a new revision.                           *)
RevisionHasOneBuild ==
  HandlersInTime =>
    \A v \in Version : \A r \in DOMAIN published[v] :
      Cardinality(published[v][r].builds) = 1

LatestHasErrors(v) == published[v] # << >> /\ Latest(v).errors

(* No live revision is based on a previous version whose latest revision has  *)
(* errors in its documents: changes would be calculated against a broken      *)
(* baseline.                                                                  *)
PreviousVersionHasNoErrors ==
  HandlersInTime =>
    \A v \in Version :
      LatestHasErrors(v) => GetVersionRevisionsByPreviousVersion(v) = {}

(* No release has errors in its documents, whether published as a release or  *)
(* made one later.                                                            *)
ReleaseHasNoErrors ==
  HandlersInTime =>
    \A v \in Version : \A r \in LiveRevisions(v) :
      published[v][r].status = "release" => ~published[v][r].errors

(* What a handler has checked is still true when it writes in time: the       *)
(* revision is the next one, a result with errors is a draft without          *)
(* dependents, and its previous version is sound.                             *)
CheckedResultStaysValid ==
  \A b \in Build :
    LET c == build[b] IN
    /\ c.phase # "none" => c.version \in Version /\ c.previous # c.version
    /\ c.changelogErrors => c.against # 0
    /\ c.against # 0 => c.previous # NoVersion
    /\ c.phase = "checked" /\ c.errors => c.status = "draft"
    /\ c.phase = "checked" /\ ~c.overtaken =>
         /\ c.revision = Len(published[c.version]) + 1
         /\ c.errors => GetVersionRevisionsByPreviousVersion(c.version) = {}
         /\ c.previous # NoVersion => ~LatestHasErrors(c.previous)

CheckedPatchStaysValid ==
  \A a \in Admin :
    LET c == admin[a] IN
    /\ c.phase = "checked" => c.version \in Version
    /\ c.phase = "checked" /\ ~c.overtaken /\ c.status = "release" =>
         /\ GetVersion(c.version) # 0
         /\ ~published[c.version][GetVersion(c.version)].errors

(* The inductive invariant of the four guarantees above.                      *)
VersionInvariant ==
  /\ TypeOK
  /\ CheckedResultStaysValid
  /\ CheckedPatchStaysValid
  /\ LiveVersionIsListed
  /\ RevisionHasOneBuild
  /\ PreviousVersionHasNoErrors
  /\ ReleaseHasNoErrors

-------------------------------------------------------------------------------
(* Guarantees about previous versions.  PublishPackage does not repeat the    *)
(* checks of the request, so each is about the versions that were not changed *)
(* while the revision was being built.                                        *)

(* A live revision whose previous version was not changed meanwhile has a     *)
(* live one: a deletion leaves no link to what it has deleted.                *)
PreviousVersionIsLive ==
  \A v \in Version : \A r \in LiveRevisions(v) :
    LET row == published[v][r] IN
    row.previous # NoVersion /\ row.previous \notin row.changed =>
      LiveRevisions(row.previous) # {}

(* A release follows no draft, unless one of the two versions was changed     *)
(* while the latest revision of the other was being built.                    *)
ReleaseFollowsRelease ==
  HandlersInTime =>
    \A v \in Version :
      LET p == Latest(v).previous IN
      /\ Listed(v) /\ Latest(v).status = "release" /\ p # NoVersion
      /\ p \notin Latest(v).changed /\ v \notin Latest(p).changed
      => published[p][GetVersion(p)].status # "draft"

(* The versions of a set are all linked to previous versions of another set.  *)
Linked(versions, previous) ==
  \A v \in versions : Listed(v) /\ Latest(v).previous \in previous

(* No version precedes itself, unless one version of the cycle was changed    *)
(* while another was being built.                                             *)
PreviousVersionsAcyclic ==
  \A cycle \in SUBSET Version :
    cycle # {} /\ Linked(cycle, cycle) =>
      \E v \in cycle : Latest(v).changed \cap cycle # {}

(* A version is compared with the latest revision of its previous version, or *)
(* the publication of that very revision has still to order the comparison,   *)
(* or has failed to; unless the previous version was changed while the        *)
(* version was being built.                                                   *)
ChangelogsFollow ==
  HandlersInTime =>
    \A v \in Version :
      LET p == Latest(v).previous IN
      Listed(v) /\ p # NoVersion /\ p \notin Latest(v).changed =>
        \/ << p, GetVersion(p) >> \in Latest(v).compared
        \/ \E b \in Build : /\ build[b].phase \in {"committed", "failed"}
                            /\ build[b].version = p
                            /\ build[b].revision = GetVersion(p)

(* What the request of a build has checked is still true of the versions that *)
(* were not changed since, and the builder has compared with the latest       *)
(* revision.                                                                  *)
RequestStaysValid ==
  \A b \in Build :
    LET c == build[b] IN
    c.phase \in {"requested", "built", "checked"} =>
      /\ c.previous # NoVersion /\ c.previous \notin c.changed =>
           /\ GetVersion(c.previous) # 0
           /\ c.status = "release" =>
                published[c.previous][GetVersion(c.previous)].status # "draft"
           /\ c.phase # "requested" => c.against = GetVersion(c.previous)
      /\ c.status = "draft" =>
           \A w \in GetVersionsByPreviousVersion(c.version)
                   \ (c.changed \cup {c.version}) :
             Latest(w).status # "release"

(* So is what a status change has checked.                                    *)
PatchStaysValid ==
  \A a \in Admin :
    LET c == admin[a] IN
    c.phase = "checked" /\ ~c.overtaken =>
      LET row == published[c.version][GetVersion(c.version)]
          p == row.previous IN
      /\ GetVersion(c.version) # 0
      /\ c.status = "release" /\ p # NoVersion /\ GetVersion(p) # 0 =>
           published[p][GetVersion(p)].status # "draft"
      /\ c.status = "draft" /\ row.status = "release" =>
           CheckNoReleaseDependentVersions(c.version)

(* So is what the search for cycles has found: a version that is being built  *)
(* would close no cycle, unless one of the other versions was changed, or the *)
(* cycle excuses itself.                                                      *)
SearchStaysValid ==
  \A b \in Build :
    LET c == build[b] IN
    c.phase \in {"requested", "built", "checked"} =>
      \A cycle \in SUBSET Version :
        /\ c.version \in cycle /\ c.previous \in cycle
        /\ Linked(cycle \ {c.version}, cycle)
        => \E w \in cycle \ {c.version} :
             w \in c.changed \/ Latest(w).changed \cap cycle # {}

(* The search looks for cycles in one package only.                           *)
OnePackage == \A v, w \in Version : PackageOf[v] = PackageOf[w]

(* The inductive invariant of the guarantees about previous versions.         *)
LinkInvariant ==
  /\ VersionInvariant
  /\ RequestStaysValid
  /\ PatchStaysValid
  /\ PreviousVersionIsLive
  /\ ReleaseFollowsRelease
  /\ ChangelogsFollow
  /\ OnePackage => PreviousVersionsAcyclic /\ SearchStaysValid

===============================================================================
