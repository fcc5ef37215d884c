----------------------------- MODULE MCSessions ------------------------------
(***************************************************************************)
(* Instances of Sessions for TLC: the two pods of a rollout.               *)
(***************************************************************************)
EXTENDS Sessions, TLC

CONSTANTS p1, p2

PodSymmetry == Permutations(Pods)
==============================================================================
