\* Two versions of a package, three publications, and other changes.
SPECIFICATION Spec
CONSTANTS
  v1 = v1
  v2 = v2
  b1 = b1
  b2 = b2
  b3 = b3
  a1 = a1
  p1 = p1
  p2 = p2
  NoVersion = NoVersion
  Version = {v1, v2}
  PackageOf <- MCOnePackage
  NameOf <- MCNames
  Build = {b1, b2, b3}
  Admin = {a1}
  DeleteLastRevision = TRUE
  DeleteReleaseRevisions = FALSE
  MaxChanges = 2
CONSTRAINT HandlersInTime
VIEW Remembered
SYMMETRY Symmetry
INVARIANTS
  VersionInvariant
  LiveVersionIsListed
  RevisionHasOneBuild
  PreviousVersionHasNoErrors
  ReleaseHasNoErrors
  ReleaseFollowsRelease
  PreviousVersionIsLive
  PreviousVersionsAcyclic
  ChangelogsFollow
  LinkInvariant
CHECK_DEADLOCK FALSE
