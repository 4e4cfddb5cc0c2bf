------------------------ MODULE MC_CoalescedPublish ------------------------
(* CoalescedPublish on small sets of changes and jobs. *)
EXTENDS CoalescedPublish, TLC

CONSTANTS c1, c2, c3, j1, j2, j3
=============================================================================
