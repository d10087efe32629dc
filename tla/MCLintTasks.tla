---------------------------- MODULE MCLintTasks ----------------------------
(* Instances of LintTasks small enough for TLC.                             *)
EXTENDS LintTasks, TLC

CONSTANTS t1, v1, e1, e2, h1, h2, w1, w2

MCVersionOf == [t \in VersionTask |-> v1]

(* No document has a linter, or every document has one.                     *)
MCSelection == {{}, Document}

(* Each replica has a thread; each has a worker, or only the first has one. *)
MCOneEach == (h1 :> e1 @@ h2 :> e2 @@ w1 :> e1 @@ w2 :> e2)
MCOneWorker == (h1 :> e1 @@ h2 :> e2 @@ w1 :> e1)
=============================================================================
