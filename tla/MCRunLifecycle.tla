--------------------------- MODULE MCRunLifecycle ---------------------------
(***************************************************************************)
(* Small instances of RunLifecycle for TLC.                                *)
(***************************************************************************)
EXTENDS RunClaims, RunRefinement, TLC

CONSTANTS a, b, c

\* A single task.
SoloTasks == {a}
SoloBefore == (a :> {})
SoloDependsOn == (a :> {})
SoloRules == (a :> "all_success")
SoloOneTry == (a :> 1)
SoloTwoTries == (a :> 2)

\* a -> b.
ChainTasks == {a, b}
ChainBefore == (a :> {}) @@ (b :> {a})
ChainDependsOn == (a :> {}) @@ (b :> {a})
ChainRules == (a :> "all_success") @@ (b :> "all_success")
ChainRetryA == (a :> 2) @@ (b :> 1)

\* a, b -> c, where c needs one success.
JoinTasks == {a, b, c}
JoinBefore == (a :> {}) @@ (b :> {a}) @@ (c :> {a, b})
JoinDependsOn == (a :> {}) @@ (b :> {}) @@ (c :> {a, b})
JoinRules == (a :> "all_success") @@ (b :> "all_success") @@ (c :> "one_success")
JoinRetryA == (a :> 2) @@ (b :> 1) @@ (c :> 1)

\* Pods are interchangeable in every safety property.
PodSymmetry == Permutations(Pods)
=============================================================================
