---------------------------- MODULE MCPayrollScheduler ----------------------------
(* Instances of PayrollScheduler: two replicas that fire for one schedule, one  *)
(* with the contract addresses and one without, two overlapping refreshes, two  *)
(* overrides in one batch.                                                      *)
EXTENDS PayrollScheduler, TLC

Symmetry == Permutations(Slots) \cup Permutations(Overrides)

\* The bound of this instance on its budgets together: a behaviour has a change of
\* the schedule with one override, or faults and simulated streams with two.
Simulates ==
  \/ \E s \in Schedules, t \in Ticks : simulated[s][t] > 0
  \/ \E o \in Overrides : simulatedFor[o] > 0
EditsOrFaults ==
  edits > 0 => faults = 0 /\ ~Simulates /\ \E o \in Overrides : override[o] = "none"
=============================================================================
