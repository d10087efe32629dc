-------------------------- MODULE MCVersionPublishing -------------------------
(* Instances of VersionPublishing small enough for TLC.                       *)
EXTENDS VersionPublishing, TLC

CONSTANTS v1, v2, b1, b2, b3, a1, p1, p2

(* All versions are in one package.                                           *)
MCOnePackage == [v \in Version |-> p1]

(* Each version is its own name, so that the versions of a package are alike. *)
MCNames == [v \in Version |-> v]

(* The second version is in a package of its own.                             *)
MCTwoPackages == (v1 :> p1) @@ (v2 :> p2)

(* Builds are alike, and so are versions, all in one package or each alone in  *)
(* its own: packages are only compared.                                       *)
Symmetry == Permutations(Build) \cup Permutations(Version)

(* Only the comparison with the latest revision of the previous version is    *)
(* read, and only that of the latest revision.                                *)
RememberedKeys(row, keys) ==
  IF row.previous = NoVersion THEN {}
  ELSE keys \cap {<< row.previous, GetVersion(row.previous) >>}

(* Of the builds that a revision holds only their number is read; of a deleted *)
(* revision, if it is the latest, also its errors.                            *)
RememberedRevision(v, r) ==
  LET row == [published[v][r] EXCEPT !.builds = Cardinality(@)]
      last == r = Len(published[v]) IN
  CASE row.deleted /\ ~last -> << row.builds >>
    [] row.deleted /\ last ->
         << row.builds, row.errors, row.previous,
            RememberedKeys(row, row.compared), RememberedKeys(row, row.changelogErrors) >>
    [] ~row.deleted /\ ~last ->
         [row EXCEPT !.compared = {}, !.changelogErrors = {}]
    [] ~row.deleted /\ last ->
         [row EXCEPT !.compared = RememberedKeys(row, @),
                     !.changelogErrors = RememberedKeys(row, @)]

(* Of a finished build only the revision is read, and only where an ordering  *)
(* has failed.                                                                *)
RememberedBuild(b) ==
  CASE build[b].phase \in {"done", "refused"} ->
         [NotRequested EXCEPT !.phase = build[b].phase]
    [] build[b].phase \in {"committed", "failed"} ->
         [NotRequested EXCEPT !.phase = build[b].phase,
                              !.version = build[b].version,
                              !.revision = build[b].revision]
    [] OTHER -> build[b]

Remembered ==
  << [v \in Version |->
        [r \in DOMAIN published[v] |-> RememberedRevision(v, r)]],
     [b \in Build |-> RememberedBuild(b)],
     admin, changes, outdated >>
===============================================================================
