------------------------------- MODULE Startup -------------------------------
(***************************************************************************)
(* The life of a fresh deployment: instances start and migrate the schema  *)
(* (Migrate), and callers of /setup meet whichever instance serves (Setup).*)
(* A request dies with its instance.                                       *)
(***************************************************************************)
EXTENDS Migrate, Setup

VARIABLE on   \* on[s]: the instance that handles request s, or None

vars == <<migrateVars, setupVars, on>>

Init == MigrateInit /\ SetupInit /\ on = [s \in Callers |-> None]

(* Seeded fault: the server listens before the migrations have run. *)
AcceptEarly(s, i) ==
  /\ spc[s] = "new"
  /\ on[s] = None
  /\ ipc[i] # "down"
  /\ on' = [on EXCEPT ![s] = i]
  /\ UNCHANGED <<migrateVars, setupVars>>

(* A request reaches an instance that serves. *)
Accept(s, i) ==
  /\ spc[s] = "new"
  /\ on[s] = None
  /\ ipc[i] = "serving"
  /\ on' = [on EXCEPT ![s] = i]
  /\ UNCHANGED <<migrateVars, setupVars>>

Serve(s) ==
  /\ on[s] # None
  /\ SetUp(s) \/ AbortSetup(s)
  /\ UNCHANGED <<migrateVars, on>>

(* The instance dies and with it the transactions of its requests. *)
StopServing(i) ==
  /\ Stop(i)
  /\ spc' = [s \in Callers |->
       IF on[s] = i /\ spc[s] \notin SetupAnswers THEN "error" ELSE spc[s]]
  /\ UNCHANGED <<email, rows, orgs, on>>

Run(i) ==
  /\ Migrate(i) \/ \E c \in Conns : CloseConn(i, c)
  /\ UNCHANGED <<setupVars, on>>

Idle ==
  /\ \A i \in Instances : ipc[i] = "serving"
  /\ \A s \in Callers : spc[s] \in SetupAnswers
  /\ UNCHANGED vars

Next ==
  \/ \E i \in Instances : Run(i) \/ StopServing(i)
  \/ \E s \in Callers : Serve(s) \/ \E i \in Instances : Accept(s, i)
  \/ Idle

Spec == Init /\ [][Next]_vars

FairSpec == Spec /\ MigrateFairness


(***************************************************************************)
(* Properties.                                                             *)
(***************************************************************************)

(* The shape of the state; no organisation exists before the tables do. *)
TypeOK ==
  /\ ipc \in [Instances -> {"down", "schema", "lock", "check", "apply", "record", "commit", "unlock", "serving"}]
  /\ file \in [Instances -> 1 .. Last + 1]
  /\ holder \in (Instances \X Conns) \cup {None}
  /\ applied \in Seq(1 .. Last)
  /\ lost \in BOOLEAN
  /\ stops \in 0 .. MaxStops
  /\ spc \in [Callers -> SetupAnswers \cup {"new", "org", "owner", "seed", "commit"}]
  /\ email \in [Callers -> Emails]
  /\ rows \in [Callers -> SUBSET Whole]
  /\ orgs \subseteq {s \in Callers : on[s] # None}
  /\ on \in [Callers -> Instances \cup {None}]
  /\ orgs # {} => Len(applied) = Last
=============================================================================
