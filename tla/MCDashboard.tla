---------------------------- MODULE MCDashboard ----------------------------
(* An instance of Dashboard for TLC. *)
EXTENDS Dashboard, TLC

Anyone == Permutations(Reports) \cup Permutations(Writers) \cup Permutations(Periods)
=============================================================================
