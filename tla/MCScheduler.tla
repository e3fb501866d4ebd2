----------------------------- MODULE MCScheduler -----------------------------
(***************************************************************************)
(* Instances of Scheduler for TLC.  Three runs are enough for one that     *)
(* holds the capacity and two that compete for it; a budget of 3 units     *)
(* lets a run of 2 fit beside one of 1 and not beside another of 2.        *)
(***************************************************************************)
EXTENDS Scheduler, TLC

L(parallel, perProject, queued, budget, starvation) ==
  [max_parallel |-> parallel, max_parallel_per_project |-> perProject,
   max_queued |-> queued, memory_budget |-> budget,
   starvation_after |-> starvation]

\* Raised and lowered in every number that admission uses.
ChangingLimits == {L(1, 1, 2, 3, 1), L(2, 1, 1, 2, 2), L(2, 2, 2, 3, 1)}

RunSymmetry == Permutations(RunId) \cup Permutations(Project)
=============================================================================
