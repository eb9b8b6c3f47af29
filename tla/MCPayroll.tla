------------------------------ MODULE MCPayroll ------------------------------
(* Instances of Payroll for TLC. *)
EXTENDS Payroll, TLC

CONSTANTS Earned, Asked

MCEarnings == {Earned}
MCAmounts == {Asked}

Anyone == Permutations(Calcs) \cup Permutations(Advances) \cup Permutations(Emps)
=============================================================================
