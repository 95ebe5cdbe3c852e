------------------------------- MODULE Faults -------------------------------
(* What goes wrong from outside, counted: a process that is killed, a call     *)
(* that fails.                                                                 *)
EXTENDS Naturals

CONSTANT MaxFaults   \* bound

ASSUME FaultsAssumption == MaxFaults \in Nat

VARIABLE faults

Fault ==
  /\ faults < MaxFaults
  /\ faults' = faults + 1
=============================================================================
