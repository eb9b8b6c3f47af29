------------------------------ MODULE MCPayDay ------------------------------
(* An instance of PayDay for TLC. *)
EXTENDS PayDay, TLC, FiniteSets

(* What an employee may take home under any of the inputs below. *)
SumsOf(S) == {n * m : n \in 0 .. Cardinality(Requests), m \in S}

MCEarnings ==
  {TakeHome(Base, [late |-> l, overtime |-> o, days |-> d]) :
     l \in Late, o \in SumsOf(Minutes), d \in SumsOf(Days)}

Anyone ==
  Permutations(Calcs) \cup Permutations(Emps) \cup Permutations(Requests)
    \cup Permutations(Accounts) \cup Permutations(Numbers) \cup Permutations(Batches)
=============================================================================
