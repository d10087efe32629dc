\* Two packages, one version each, and nothing but publications.
SPECIFICATION Spec
CONSTANTS
  v1 = v1
  v2 = v2
  b1 = b1
  b2 = b2
  b3 = b3
  a1 = a1
  p1 = p1
  p2 = p2
  NoVersion = NoVersion
  Version = {v1, v2}
  PackageOf <- MCTwoPackages
  NameOf <- MCNames
  Build = {b1, b2, b3}
  Admin = {a1}
  DeleteLastRevision = TRUE
  DeleteReleaseRevisions = FALSE
  MaxChanges = 0
CONSTRAINT HandlersInTime
VIEW Remembered
SYMMETRY Symmetry
INVARIANTS
  PreviousVersionsAcyclic
CHECK_DEADLOCK FALSE
