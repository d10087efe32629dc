----------------------------- MODULE MCBuildQueue -----------------------------
(* Instances of BuildQueue small enough for TLC.                              *)
EXTENDS BuildQueue, TLC

CONSTANTS b1, b2, n1, n2, c1

(* The second build waits for the first.                                      *)
MCChain == (b1 :> {}) @@ (b2 :> {b1})
MCAlone == [b \in Build |-> {}]

(* A changelog build (-1) and a publication (1), or equal priorities.         *)
MCMixedPriority == (b1 :> -1) @@ (b2 :> 1)
MCEqualPriority == [b \in Build |-> 1]

NodeSymmetry == Permutations(NodeBuilder)
HandlerSymmetry == Permutations(Handler)
Symmetry == NodeSymmetry \cup HandlerSymmetry
===============================================================================
