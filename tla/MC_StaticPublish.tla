-------------------------- MODULE MC_StaticPublish --------------------------
(* StaticPublish on small sets of jobs and pages. *)
EXTENDS StaticPublish, TLC

CONSTANTS j1, j2, j3, j4, page, article

Symmetry == Permutations(Jobs)
=============================================================================
