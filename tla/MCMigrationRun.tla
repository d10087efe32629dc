---------------------------- MODULE MCMigrationRun ----------------------------
(* Instances of MigrationRun small enough for TLC.                            *)
EXTENDS MigrationRun, TLC

CONSTANTS x1, x2, i1, i2

(* A version, and one that names it as its previous version.                    *)
MCStageOf == (x1 :> "independent_versions_last" @@ x2 :> "dependent_versions_last")
MCNeeds == (x1 :> {} @@ x2 :> {{x1}})

(* A full migration is started by the instance that may crash, and one of the   *)
(* changelogs only by the other.                                                *)
MCInit == Init /\ (run.owner = i1 <=> ~run.changelogOnly)
MCFairSpec == MCInit /\ [][Next]_vars /\ Fairness
===============================================================================
