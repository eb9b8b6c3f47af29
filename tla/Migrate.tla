------------------------------- MODULE Migrate -------------------------------
(***************************************************************************)
(* The start of the program on several instances at once: main connects a  *)
(* pool, Migrate takes the advisory lock, applies the migration files that *)
(* schema_migrations does not list, each in a transaction of its own, and  *)
(* unlocks; then the instance serves.                                      *)
(*                                                                         *)
(* The lock belongs to a session, and every pool.Exec may run on another   *)
(* connection of the pool: nothing ties the unlock, or the migrations, to  *)
(* the connection that holds the lock.                                     *)
(***************************************************************************)
EXTENDS Integers, Sequences, FiniteSets

CONSTANTS
  Instances,   \* processes that share the database
  Conns,       \* the connections of a pool
  Last,        \* the migration files are 1 .. Last, in the order of their names
  MaxStops,    \* bound of the model on crashes and failed statements
  None

ASSUME LastAssumption == Last \in Nat
ASSUME StopAssumption == MaxStops \in Nat
ASSUME NoneAssumption == None \notin Instances \cup (Instances \X Conns)

VARIABLES
  ipc,       \* ipc[i]: the next statement of instance i, "down" or "serving"
  file,      \* file[i]: the migration file i is at
  holder,    \* the session <<i, c>> that holds the advisory lock, or None
  applied,   \* the rows of schema_migrations, in the order they were committed
  lost,      \* a session was closed while it held the lock for a migration
  stops      \* crashes and failures so far

migrateVars == <<ipc, file, holder, applied, lost, stops>>

MigrateInit ==
  /\ ipc = [i \in Instances |-> "down"]
  /\ file = [i \in Instances |-> 1]
  /\ holder = None
  /\ applied = <<>>
  /\ lost = FALSE
  /\ stops = 0

IsApplied(v) == \E n \in DOMAIN applied : applied[n] = v

(* i has a migration transaction open. *)
InTx(i) == ipc[i] \in {"record", "commit"}

Migrating(i) == InTx(i) \/ ipc[i] \in {"check", "apply"}

Goto(i, l) == ipc' = [ipc EXCEPT ![i] = l]

Step(i, l) ==
  /\ Goto(i, l)
  /\ UNCHANGED <<file, holder, applied, lost, stops>>

(* main: the configuration is valid and the pool is connected. *)
Connect(i) ==
  /\ ipc[i] = "down"
  /\ Goto(i, "schema")
  /\ file' = [file EXCEPT ![i] = 1]
  /\ UNCHANGED <<holder, applied, lost, stops>>

(* CREATE SCHEMA IF NOT EXISTS *)
EnsureSchema(i) == ipc[i] = "schema" /\ Step(i, "lock")

(* Seeded fault: pg_try_advisory_lock, its result ignored. *)
TryLock(i, c) ==
  /\ ipc[i] = "lock"
  /\ Goto(i, "check")
  /\ holder' = IF holder = None THEN <<i, c>> ELSE holder
  /\ UNCHANGED <<file, applied, lost, stops>>

(* pg_advisory_lock on some connection of the pool waits, without a        *)
(* deadline, until no session holds it.                                    *)
TakeLock(i, c) ==
  /\ ipc[i] = "lock"
  /\ holder = None
  /\ holder' = <<i, c>>
  /\ Goto(i, "check")
  /\ UNCHANGED <<file, applied, lost, stops>>

(* Seeded fault: the row of a transaction that is still open counts. *)
CheckDirty(i) ==
  /\ ipc[i] = "check"
  /\ \/ file[i] > Last /\ Goto(i, "unlock") /\ UNCHANGED file
     \/ /\ IsApplied(file[i]) \/ \E j \in Instances \ {i} : ipc[j] = "commit" /\ file[j] = file[i]
        /\ file' = [file EXCEPT ![i] = @ + 1]
        /\ UNCHANGED ipc
     \/ file[i] <= Last /\ ~ IsApplied(file[i]) /\ Goto(i, "apply") /\ UNCHANGED file
  /\ UNCHANGED <<holder, applied, lost, stops>>

(* SELECT EXISTS: a file that is recorded is skipped. *)
Check(i) ==
  /\ ipc[i] = "check"
  /\ \/ file[i] > Last /\ Goto(i, "unlock") /\ UNCHANGED file
     \/ IsApplied(file[i]) /\ file' = [file EXCEPT ![i] = @ + 1] /\ UNCHANGED ipc
     \/ file[i] <= Last /\ ~ IsApplied(file[i]) /\ Goto(i, "apply") /\ UNCHANGED file
  /\ UNCHANGED <<holder, applied, lost, stops>>

(* The transaction begins and the file, which is idempotent, is executed. *)
Apply(i) == ipc[i] = "apply" /\ Step(i, "record")

(* Seeded fault: the lock outlives the process, as a row of a table would. *)
DownKeepsLock(i) == Goto(i, "down") /\ UNCHANGED holder

(* log.Fatalf, or a crash: the sessions of the process end with it. *)
Down(i) ==
  /\ Goto(i, "down")
  /\ holder' = IF \E c \in Conns : holder = <<i, c>> THEN None ELSE holder

(* Seeded fault: version is not a key. *)
RecordAnyway(i) == ipc[i] = "record" /\ Step(i, "commit")

(* INSERT INTO schema_migrations, PRIMARY KEY(version): waits for the      *)
(* transaction of another instance that inserted the same version, and     *)
(* fails once that is committed.                                           *)
Record(i) ==
  /\ ipc[i] = "record"
  /\ \A j \in Instances \ {i} : ~ (ipc[j] = "commit" /\ file[j] = file[i])
  /\ IF IsApplied(file[i]) THEN Down(i) ELSE Goto(i, "commit") /\ UNCHANGED holder
  /\ UNCHANGED <<file, applied, lost, stops>>

CommitFile(i) ==
  /\ ipc[i] = "commit"
  /\ applied' = Append(applied, file[i])
  /\ file' = [file EXCEPT ![i] = @ + 1]
  /\ Goto(i, "check")
  /\ UNCHANGED <<holder, lost, stops>>

(* The deferred pg_advisory_unlock, its error ignored: on another          *)
(* connection than the one that holds the lock it does nothing.            *)
Unlock(i, c) ==
  /\ ipc[i] = "unlock"
  /\ Goto(i, "serving")
  /\ holder' = IF holder = <<i, c>> THEN None ELSE holder
  /\ UNCHANGED <<file, applied, lost, stops>>

(* The pool closes the connection, idle or past its lifetime, or the       *)
(* network does; the server releases the lock of the session.              *)
CloseConn(i, c) ==
  /\ holder = <<i, c>>
  /\ holder' = None
  /\ lost' = (lost \/ Migrating(i))
  /\ UNCHANGED <<ipc, file, applied, stops>>

(* A statement fails or the process dies; an open transaction is undone. *)
Stop(i) ==
  /\ ipc[i] # "down"
  /\ stops < MaxStops
  /\ stops' = stops + 1
  /\ Down(i)
  /\ UNCHANGED <<file, applied, lost>>

Migrate(i) ==
  \/ Connect(i) \/ EnsureSchema(i) \/ Check(i) \/ Apply(i) \/ Record(i) \/ CommitFile(i)
  \/ \E c \in Conns : TakeLock(i, c) \/ Unlock(i, c)

MigrateNext == \E i \in Instances : Migrate(i) \/ Stop(i) \/ \E c \in Conns : CloseConn(i, c)

(* An instance is started again and gets on with its statements, and a     *)
(* connection that holds the lock of an instance that serves is recycled   *)
(* at the end of its lifetime.                                             *)
MigrateFairness ==
  \A i \in Instances :
    /\ WF_migrateVars(Migrate(i))
    /\ WF_migrateVars(ipc[i] = "serving" /\ \E c \in Conns : CloseConn(i, c))


(***************************************************************************)
(* Properties.                                                             *)
(***************************************************************************)

(* Every file is committed once and in the order of the names, also when   *)
(* the lock was lost and two instances migrate at once.                    *)
MigratedOnceInOrder == Len(applied) <= Last /\ \A n \in DOMAIN applied : applied[n] = n

(* README: migration advisory lock to avoid concurrent startup migration   *)
(* races.  Two instances are inside a migration at once only after the     *)
(* session that held the lock was closed under one of them.                *)
ExclusiveUnlessLost ==
  ~ lost => \A i, j \in Instances : Migrating(i) /\ Migrating(j) => i = j

(* An instance serves requests only on the complete schema. *)
ServesOnlyMigrated ==
  \A i \in Instances : ipc[i] = "serving" => \A v \in 1 .. Last : IsApplied(v)

(* Every instance ends up serving, although the unlock may miss the        *)
(* session that holds the lock and an instance may wait for another's.     *)
EveryInstanceServes == <>[](\A i \in Instances : ipc[i] = "serving")
=============================================================================
