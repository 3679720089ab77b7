---------------------------- MODULE MCDeployment ----------------------------
(***************************************************************************)
(* The instance of Deployment that TLC checks: two recipes, one image that *)
(* is built and one that is pinned.                                        *)
(***************************************************************************)
EXTENDS Deployment, TLC

\* The recipes differ in what they are, which Init chooses.
JobSymmetry == Permutations(Jobs)

=============================================================================
