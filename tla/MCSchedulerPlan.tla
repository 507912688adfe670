-------------------------- MODULE MCSchedulerPlan --------------------------
(***************************************************************************)
(* SchedulerPlan for TLC: requests are symmetric.                          *)
(***************************************************************************)
EXTENDS SchedulerPlan, TLC

Symmetry == Permutations(Req)

=============================================================================
