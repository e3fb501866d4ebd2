---------------------------- MODULE MCSupervisor ----------------------------
(***************************************************************************)
(* Instances of Supervisor for TLC.  One slot is the case where runs wait  *)
(* for each other; every run asks for the one unit that the budget has, so *)
(* that a held reservation keeps the others out.                           *)
(***************************************************************************)
EXTENDS Supervisor, TLC

OneSlot == {[max_parallel |-> 1, max_parallel_per_project |-> 1,
             max_queued |-> 1, memory_budget |-> 1, starvation_after |-> 2]}

Symmetry == Permutations(RunId) \cup Permutations(Client)
=============================================================================
