-------------------------------- MODULE Setup --------------------------------
(***************************************************************************)
(* setup, the public request that creates the first organisation with its  *)
(* owner and payroll defaults, as several callers at once meet it.  An     *)
(* element of Callers is one request and the organisations row it inserts. *)
(***************************************************************************)
EXTENDS Integers, FiniteSets

CONSTANTS
  Callers,   \* POST /setup
  Emails     \* addresses a caller may give for the owner

VARIABLES
  spc,     \* spc[s]: the next statement of request s, or its answer
  email,   \* email[s]: the address of the owner
  rows,    \* rows[s]: what the transaction of s has written
  orgs     \* the organisations committed

setupVars == <<spc, email, rows, orgs>>

Whole == {"organization", "owner", "rules"}
SetupAnswers == {"created", "refused", "error"}

SetupInit ==
  /\ spc = [s \in Callers |-> "new"]
  /\ email \in [Callers -> Emails]
  /\ rows = [s \in Callers |-> {}]
  /\ orgs = {}

SetupGoto(s, l) == spc' = [spc EXCEPT ![s] = l]

(* The SELECT that counts organisations runs before the transaction. *)
Count(s) ==
  /\ spc[s] = "new"
  /\ SetupGoto(s, IF orgs = {} THEN "org" ELSE "refused")
  /\ UNCHANGED <<email, rows, orgs>>

InsertOrg(s) ==
  /\ spc[s] = "org"
  /\ SetupGoto(s, "owner")
  /\ rows' = [rows EXCEPT ![s] = {"organization"}]
  /\ UNCHANGED <<email, orgs>>

SameEmail(s) == {t \in Callers \ {s} : email[t] = email[s]}

(* Seeded fault: users.email is not unique. *)
InsertOwnerAnyway(s) ==
  /\ spc[s] = "owner"
  /\ SetupGoto(s, "seed")
  /\ rows' = [rows EXCEPT ![s] = @ \cup {"owner"}]
  /\ UNCHANGED <<email, orgs>>

(* UNIQUE(email): the INSERT waits for a pending owner of the same address *)
(* and fails if one is committed.                                          *)
InsertOwner(s) ==
  /\ spc[s] = "owner"
  /\ \A t \in SameEmail(s) : spc[t] \notin {"seed", "commit"}
  /\ IF SameEmail(s) \cap orgs = {}
       THEN SetupGoto(s, "seed") /\ rows' = [rows EXCEPT ![s] = @ \cup {"owner"}]
       ELSE SetupGoto(s, "error") /\ UNCHANGED rows
  /\ UNCHANGED <<email, orgs>>

(* Seeded fault: the defaults are written outside the transaction, which   *)
(* is committed first.                                                     *)
SeedAfterCommit(s) ==
  /\ spc[s] = "seed"
  /\ SetupGoto(s, "commit")
  /\ orgs' = orgs \cup {s}
  /\ UNCHANGED <<email, rows>>

(* seedPayrollDefaults, in the same transaction. *)
SeedDefaults(s) ==
  /\ spc[s] = "seed"
  /\ SetupGoto(s, "commit")
  /\ rows' = [rows EXCEPT ![s] = @ \cup {"rules"}]
  /\ UNCHANGED <<email, orgs>>

(* The caller may not get the answer. *)
CommitOrg(s) ==
  /\ spc[s] = "commit"
  /\ orgs' = orgs \cup {s}
  /\ \E answer \in {"created", "error"} : SetupGoto(s, answer)
  /\ UNCHANGED <<email, rows>>

(* A statement fails or the deadline passes: nothing was written. *)
AbortSetup(s) ==
  /\ spc[s] \notin SetupAnswers
  /\ SetupGoto(s, "error")
  /\ UNCHANGED <<email, rows, orgs>>

SetUp(s) == Count(s) \/ InsertOrg(s) \/ InsertOwner(s) \/ SeedDefaults(s) \/ CommitOrg(s)


(***************************************************************************)
(* Properties.                                                             *)
(***************************************************************************)

(* An organisation anyone can see has its owner and its payroll defaults,  *)
(* whatever failed while it was created.                                   *)
OrgsComplete == \A s \in orgs : rows[s] = Whole

(* No two organisations have an owner of the same address, so that a login *)
(* by address finds one.                                                   *)
OneOwnerPerEmail == \A s, t \in orgs : email[s] = email[t] => s = t

(* docs/API_ENDPOINTS.md: /setup is public, once only. *)
SetupOnce == \A s, t \in orgs : s = t
=============================================================================
