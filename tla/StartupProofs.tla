----------------------------- MODULE StartupProofs -----------------------------
(***************************************************************************)
(* Theorems about Startup, for every number of instances, connections,     *)
(* migration files and callers, and every number of crashes.               *)
(***************************************************************************)
EXTENDS Startup, SequenceTheorems, TLAPS

(***************************************************************************)
(* The migrations.                                                         *)
(***************************************************************************)
MigrateShape ==
  /\ ipc \in [Instances -> {"down", "schema", "lock", "check", "apply", "record", "commit", "unlock", "serving"}]
  /\ file \in [Instances -> 1 .. Last + 1]
  /\ holder \in (Instances \X Conns) \cup {None}
  /\ applied \in Seq(1 .. Last)
  /\ lost \in BOOLEAN
  /\ stops \in 0 .. MaxStops

(* The files before the one an instance is at are committed, also when     *)
(* another instance committed them; a transaction that has its row pending *)
(* is about the first file that is not, so that there is one such          *)
(* transaction; only complete schemas are served.                          *)
FilesInv ==
  /\ MigratedOnceInOrder
  /\ \A i \in Instances :
       /\ ipc[i] # "down" => file[i] <= Len(applied) + 1
       /\ ipc[i] \in {"apply", "record", "commit"} => file[i] <= Last
       /\ ipc[i] = "commit" => file[i] = Len(applied) + 1
       /\ ipc[i] \in {"unlock", "serving"} => Len(applied) = Last
  /\ \A i, j \in Instances : ipc[i] = "commit" /\ ipc[j] = "commit" => i = j

(* As long as no session was closed under a migration, the instance that   *)
(* migrates has the lock.                                                  *)
LockInv ==
  ~ lost => \A i \in Instances : Migrating(i) => \E c \in Conns : holder = <<i, c>>

MigrateInv == MigrateShape /\ FilesInv /\ LockInv

(* A file is recorded iff its number is at most the number of rows. *)
LEMMA AppliedPrefix ==
  ASSUME MigrateShape, MigratedOnceInOrder, NEW v \in 1 .. Last + 1
  PROVE  IsApplied(v) <=> v <= Len(applied)
<1>1. DOMAIN applied = 1 .. Len(applied) /\ Len(applied) \in Nat
  BY DEF MigrateShape
<1> QED BY <1>1 DEF MigratedOnceInOrder, IsApplied

LEMMA MigrateInitInv == MigrateInit => MigrateInv
<1> SUFFICES ASSUME MigrateInit PROVE MigrateInv
  OBVIOUS
<1>1. MigrateShape
  <2>1. applied \in Seq(1 .. Last)
    BY EmptySeq DEF MigrateInit
  <2>2. 1 \in 1 .. Last + 1 /\ 0 \in 0 .. MaxStops
    BY LastAssumption, StopAssumption
  <2> QED BY <2>1, <2>2 DEF MigrateInit, MigrateShape
<1>2. FilesInv
  <2>1. Len(applied) = 0 /\ DOMAIN applied = {}
    BY DEF MigrateInit
  <2> QED BY <2>1, LastAssumption DEF MigrateInit, FilesInv, MigratedOnceInOrder
<1>3. LockInv
  BY DEF MigrateInit, LockInv, Migrating, InTx
<1> QED BY <1>1, <1>2, <1>3 DEF MigrateInv

(* A step of instance i that leaves the rows of schema_migrations alone.   *)
LEMMA MoveFiles ==
  ASSUME MigrateShape, FilesInv, NEW i \in Instances, applied' = applied,
         \A j \in Instances \ {i} : ipc'[j] = ipc[j] /\ file'[j] = file[j],
         ipc'[i] # "down" => file'[i] <= Len(applied) + 1,
         ipc'[i] \in {"apply", "record", "commit"} => file'[i] <= Last,
         ipc'[i] = "commit" =>
           file'[i] = Len(applied) + 1 /\ \A j \in Instances \ {i} : ipc[j] # "commit",
         ipc'[i] \in {"unlock", "serving"} => Len(applied) = Last
  PROVE  FilesInv'
BY DEF FilesInv, MigratedOnceInOrder

LEMMA CheckFiles ==
  ASSUME MigrateInv, NEW i \in Instances, Check(i)
  PROVE  FilesInv'
<1>1. Len(applied) \in Nat /\ Len(applied) <= Last /\ file[i] \in 1 .. Last + 1
  BY DEF MigrateInv, MigrateShape, FilesInv, MigratedOnceInOrder
<1>2. file[i] <= Len(applied) + 1
  BY DEF MigrateInv, FilesInv, Check
<1>3. IsApplied(file[i]) <=> file[i] <= Len(applied)
  BY <1>1, AppliedPrefix DEF MigrateInv, FilesInv
<1>4. CASE file[i] > Last /\ Goto(i, "unlock") /\ UNCHANGED file
  BY <1>1, <1>2, <1>4, LastAssumption, MoveFiles DEF Check, Goto, MigrateInv, MigrateShape
<1>5. CASE IsApplied(file[i]) /\ file' = [file EXCEPT ![i] = @ + 1] /\ UNCHANGED ipc
  <2>1. file'[i] = file[i] + 1 /\ ipc'[i] = "check"
    BY <1>5 DEF Check, MigrateInv, MigrateShape
  <2>2. \A j \in Instances \ {i} : ipc'[j] = ipc[j] /\ file'[j] = file[j]
    BY <1>5 DEF Check, MigrateInv, MigrateShape
  <2>3. applied' = applied /\ file'[i] <= Len(applied) + 1
    BY <1>1, <1>3, <1>5, <2>1 DEF Check
  <2> QED BY <2>1, <2>2, <2>3, MoveFiles DEF MigrateInv
<1>6. CASE file[i] <= Last /\ ~ IsApplied(file[i]) /\ Goto(i, "apply") /\ UNCHANGED file
  BY <1>1, <1>2, <1>6, LastAssumption, MoveFiles DEF Check, Goto, MigrateInv, MigrateShape
<1> QED BY <1>4, <1>5, <1>6 DEF Check

LEMMA RecordFiles ==
  ASSUME MigrateInv, NEW i \in Instances, Record(i)
  PROVE  FilesInv'
<1>1. Len(applied) \in Nat /\ Len(applied) <= Last /\ file[i] \in 1 .. Last + 1
  BY DEF MigrateInv, MigrateShape, FilesInv, MigratedOnceInOrder
<1>2. file[i] <= Len(applied) + 1 /\ file[i] <= Last
  BY DEF MigrateInv, FilesInv, Record
<1>3. IsApplied(file[i]) <=> file[i] <= Len(applied)
  BY <1>1, AppliedPrefix DEF MigrateInv, FilesInv
<1>4. file' = [file EXCEPT ![i] = file[i]] /\ applied' = applied
  BY DEF Record, MigrateInv, MigrateShape
<1>5. CASE IsApplied(file[i])
  BY <1>1, <1>4, <1>5, MoveFiles DEF Record, Down, Goto, MigrateInv, MigrateShape
<1>6. CASE ~ IsApplied(file[i])
  <2>1. file[i] = Len(applied) + 1
    BY <1>1, <1>2, <1>3, <1>6
  <2>2. \A j \in Instances \ {i} : ipc[j] # "commit"
    BY <2>1 DEF Record, MigrateInv, FilesInv
  <2> QED BY <1>1, <1>2, <1>4, <1>6, <2>1, <2>2, MoveFiles DEF Record, Goto, MigrateInv, MigrateShape
<1> QED BY <1>5, <1>6

LEMMA CommitFiles ==
  ASSUME MigrateInv, NEW i \in Instances, CommitFile(i)
  PROVE  FilesInv' /\ applied' \in Seq(1 .. Last) /\ file' \in [Instances -> 1 .. Last + 1]
<1>1. /\ applied \in Seq(1 .. Last) /\ Len(applied) \in Nat /\ file[i] \in 1 .. Last
      /\ file[i] = Len(applied) + 1
  BY LastAssumption DEF MigrateInv, MigrateShape, FilesInv, CommitFile
<1>2. /\ applied' \in Seq(1 .. Last)
      /\ Len(applied') = Len(applied) + 1
      /\ \A n \in 1 .. Len(applied) : applied'[n] = applied[n]
      /\ applied'[Len(applied) + 1] = file[i]
      /\ DOMAIN applied' = 1 .. Len(applied) + 1
  BY <1>1, AppendProperties DEF CommitFile
<1>3. MigratedOnceInOrder'
  <2>1. \A n \in 1 .. Len(applied) : applied'[n] = n
    BY <1>1, <1>2 DEF MigrateInv, FilesInv, MigratedOnceInOrder
  <2>2. \A n \in 1 .. Len(applied) + 1 : n \in 1 .. Len(applied) \/ n = Len(applied) + 1
    BY <1>1
  <2>3. \A n \in DOMAIN applied' : applied'[n] = n
    BY <1>1, <1>2, <2>1, <2>2
  <2> QED BY <1>1, <1>2, <2>3, LastAssumption DEF MigratedOnceInOrder
<1>4. file' \in [Instances -> 1 .. Last + 1] /\ file'[i] = file[i] + 1
  BY <1>1, LastAssumption DEF CommitFile, MigrateInv, MigrateShape
<1>5. \A j \in Instances \ {i} : ipc[j] # "commit" /\ ~ (ipc[j] \in {"unlock", "serving"})
  BY <1>1, LastAssumption DEF MigrateInv, FilesInv, CommitFile
<1>6. \A j \in Instances : ipc'[j] = (IF j = i THEN "check" ELSE ipc[j])
                        /\ file'[j] = (IF j = i THEN file[i] + 1 ELSE file[j])
  BY DEF CommitFile, Goto, MigrateInv, MigrateShape
<1>7. \A j \in Instances : file[j] \in 1 .. Last + 1
  BY DEF MigrateInv, MigrateShape
<1>8. FilesInv'
  BY <1>1, <1>2, <1>3, <1>5, <1>6, <1>7, LastAssumption DEF MigrateInv, FilesInv
<1> QED BY <1>2, <1>4, <1>8

LEMMA StepFiles ==
  ASSUME MigrateInv, NEW i \in Instances,
         Migrate(i) \/ Stop(i) \/ \E c \in Conns : CloseConn(i, c)
  PROVE  FilesInv'
<1>0. /\ Len(applied) \in Nat /\ Len(applied) <= Last /\ file[i] \in 1 .. Last + 1
      /\ file = [file EXCEPT ![i] = file[i]] /\ 1 \in 1 .. Last + 1
      /\ ipc[i] # "down" => file[i] <= Len(applied) + 1
      /\ ipc[i] \in {"apply", "record"} => file[i] <= Last
      /\ ipc[i] = "unlock" => Len(applied) = Last
  BY LastAssumption DEF MigrateInv, MigrateShape, FilesInv, MigratedOnceInOrder
<1>1. CASE Connect(i)
  BY <1>0, <1>1, MoveFiles DEF Connect, Goto, MigrateInv, MigrateShape
<1>2. CASE EnsureSchema(i)
  BY <1>0, <1>2, MoveFiles DEF EnsureSchema, Step, Goto, MigrateInv, MigrateShape
<1>3. CASE \E c \in Conns : TakeLock(i, c)
  BY <1>0, <1>3, MoveFiles DEF TakeLock, Goto, MigrateInv, MigrateShape
<1>4. CASE Check(i)
  BY <1>4, CheckFiles
<1>5. CASE Apply(i)
  BY <1>0, <1>5, MoveFiles DEF Apply, Step, Goto, MigrateInv, MigrateShape
<1>6. CASE Record(i)
  BY <1>6, RecordFiles
<1>7. CASE CommitFile(i)
  BY <1>7, CommitFiles
<1>8. CASE \E c \in Conns : Unlock(i, c)
  BY <1>0, <1>8, MoveFiles DEF Unlock, Goto, MigrateInv, MigrateShape
<1>9. CASE Stop(i)
  BY <1>0, <1>9, MoveFiles DEF Stop, Down, Goto, MigrateInv, MigrateShape
<1>10. CASE \E c \in Conns : CloseConn(i, c)
  BY <1>10 DEF CloseConn, MigrateInv, FilesInv, MigratedOnceInOrder
<1> QED BY <1>1, <1>2, <1>3, <1>4, <1>5, <1>6, <1>7, <1>8, <1>9, <1>10 DEF Migrate

LEMMA StepShape ==
  ASSUME MigrateInv, NEW i \in Instances,
         Migrate(i) \/ Stop(i) \/ \E c \in Conns : CloseConn(i, c)
  PROVE  MigrateShape'
<1> USE LastAssumption, StopAssumption
<1>0. MigrateShape
  BY DEF MigrateInv
<1>1. CASE Connect(i)
  BY <1>0, <1>1 DEF MigrateShape, Connect, Goto
<1>2. CASE EnsureSchema(i) \/ Apply(i)
  BY <1>0, <1>2 DEF MigrateShape, EnsureSchema, Apply, Step, Goto
<1>3. CASE \E c \in Conns : TakeLock(i, c)
  BY <1>0, <1>3 DEF MigrateShape, TakeLock, Goto
<1>4. CASE Check(i)
  <2>1. IsApplied(file[i]) => file[i] + 1 \in 1 .. Last + 1
    <3>1. Len(applied) \in Nat /\ Len(applied) <= Last /\ file[i] \in 1 .. Last + 1
      BY <1>0 DEF MigrateShape, MigrateInv, FilesInv, MigratedOnceInOrder
    <3>2. IsApplied(file[i]) => file[i] <= Len(applied)
      BY <1>0, <3>1, AppliedPrefix DEF MigrateInv, FilesInv
    <3> QED BY <3>1, <3>2
  <2> QED BY <1>0, <1>4, <2>1 DEF MigrateShape, Check, Goto
<1>5. CASE Record(i)
  BY <1>0, <1>5 DEF MigrateShape, Record, Down, Goto
<1>6. CASE CommitFile(i)
  BY <1>0, <1>6, CommitFiles DEF MigrateShape, CommitFile, Goto
<1>7. CASE \E c \in Conns : Unlock(i, c)
  BY <1>0, <1>7 DEF MigrateShape, Unlock, Goto
<1>8. CASE Stop(i)
  BY <1>0, <1>8 DEF MigrateShape, Stop, Down, Goto
<1>9. CASE \E c \in Conns : CloseConn(i, c)
  BY <1>0, <1>9 DEF MigrateShape, CloseConn
<1> QED BY <1>1, <1>2, <1>3, <1>4, <1>5, <1>6, <1>7, <1>8, <1>9 DEF Migrate

LEMMA StepLock ==
  ASSUME MigrateInv, NEW i \in Instances,
         Migrate(i) \/ Stop(i) \/ \E c \in Conns : CloseConn(i, c)
  PROVE  LockInv'
<1>0. MigrateShape /\ LockInv
  BY DEF MigrateInv
<1>1. \A j \in Instances, c \in Conns : holder = <<j, c>> => holder # None
  BY NoneAssumption
<1>2. CASE Connect(i)
  BY <1>0, <1>2 DEF MigrateShape, LockInv, Migrating, InTx, Connect, Goto
<1>3. CASE EnsureSchema(i) \/ Apply(i)
  BY <1>0, <1>3 DEF MigrateShape, LockInv, Migrating, InTx, EnsureSchema, Apply, Step, Goto
<1>4. CASE \E c \in Conns : TakeLock(i, c)
  BY <1>0, <1>1, <1>4 DEF MigrateShape, LockInv, Migrating, InTx, TakeLock, Goto
<1>5. CASE Check(i)
  BY <1>0, <1>5 DEF MigrateShape, LockInv, Migrating, InTx, Check, Goto
<1>6. CASE Record(i)
  <2>1. ipc'[i] \in {"down", "commit"} /\ lost' = lost
    BY <1>0, <1>6 DEF MigrateShape, Record, Down, Goto
  <2>2. \A j \in Instances \ {i} : ipc'[j] = ipc[j]
    BY <1>0, <1>6 DEF MigrateShape, Record, Down, Goto
  <2>3. ipc'[i] = "commit" => holder' = holder
    BY <1>0, <1>6 DEF MigrateShape, Record, Down, Goto
  <2>4. Migrating(i)
    BY <1>6 DEF Record, Migrating, InTx
  <2>5. ~ lost => \A j \in Instances \ {i} : ~ Migrating(j)
    BY <1>0, <2>4 DEF LockInv
  <2> QED BY <1>0, <2>1, <2>2, <2>3, <2>4, <2>5 DEF LockInv, Migrating, InTx
<1>7. CASE CommitFile(i)
  BY <1>0, <1>7 DEF MigrateShape, LockInv, Migrating, InTx, CommitFile, Goto
<1>8. CASE \E c \in Conns : Unlock(i, c)
  BY <1>0, <1>8 DEF MigrateShape, LockInv, Migrating, InTx, Unlock, Goto
<1>9. CASE Stop(i)
  BY <1>0, <1>9 DEF MigrateShape, LockInv, Migrating, InTx, Stop, Down, Goto
<1>10. CASE \E c \in Conns : CloseConn(i, c)
  <2> PICK c \in Conns : CloseConn(i, c)
    BY <1>10
  <2>1. \A j \in Instances : Migrating(j)' <=> Migrating(j)
    BY DEF CloseConn, Migrating, InTx
  <2>2. ~ lost' => ~ lost /\ ~ Migrating(i)
    BY DEF CloseConn
  <2>3. \A j \in Instances, d \in Conns : holder = <<j, d>> => j = i
    BY DEF CloseConn
  <2>4. ~ lost' => \A j \in Instances : ~ Migrating(j)
    BY <1>0, <2>2, <2>3 DEF LockInv
  <2> QED BY <2>1, <2>4 DEF LockInv
<1> QED BY <1>2, <1>3, <1>4, <1>5, <1>6, <1>7, <1>8, <1>9, <1>10 DEF Migrate

(***************************************************************************)
(* Setup.                                                                  *)
(***************************************************************************)
SetupShape ==
  /\ spc \in [Callers -> SetupAnswers \cup {"new", "org", "owner", "seed", "commit"}]
  /\ email \in [Callers -> Emails]
  /\ rows \in [Callers -> SUBSET Whole]

(* The owner of s is inserted: pending, or committed with the rest. *)
HasOwner(s) == spc[s] \in {"seed", "commit"} \/ s \in orgs

(* What a transaction has written is told by its next statement, and two   *)
(* owners of one address never exist, not even pending.                    *)
RowsInv ==
  /\ orgs \subseteq {s \in Callers : spc[s] \in SetupAnswers}
  /\ \A s \in Callers :
       /\ spc[s] = "owner" => rows[s] = {"organization"}
       /\ spc[s] = "seed" => rows[s] = {"organization", "owner"}
       /\ spc[s] = "commit" \/ s \in orgs => rows[s] = Whole
  /\ \A s, t \in Callers : HasOwner(s) /\ HasOwner(t) /\ email[s] = email[t] => s = t

SetupInv == SetupShape /\ RowsInv

LEMMA SetupInitInv == SetupInit => SetupInv
BY DEF SetupInit, SetupInv, SetupShape, RowsInv, HasOwner, SetupAnswers, Whole

LEMMA SetupStepInv ==
  ASSUME SetupInv, NEW s \in Callers, SetUp(s) \/ AbortSetup(s)
  PROVE  SetupInv'
<1> USE DEF SetupInv, SetupShape, RowsInv, HasOwner, SetupGoto, SetupAnswers, Whole
<1>1. CASE Count(s)
  BY <1>1 DEF Count
<1>2. CASE InsertOrg(s)
  BY <1>2 DEF InsertOrg
<1>3. CASE InsertOwner(s)
  BY <1>3 DEF InsertOwner, SameEmail
<1>4. CASE SeedDefaults(s)
  BY <1>4 DEF SeedDefaults
<1>5. CASE CommitOrg(s)
  BY <1>5 DEF CommitOrg
<1>6. CASE AbortSetup(s)
  BY <1>6 DEF AbortSetup
<1> QED BY <1>1, <1>2, <1>3, <1>4, <1>5, <1>6 DEF SetUp

(***************************************************************************)
(* Both together.                                                          *)
(***************************************************************************)

(* A request reaches an instance only when the schema is complete, and     *)
(* files are never undone.                                                 *)
OnInv ==
  /\ on \in [Callers -> Instances \cup {None}]
  /\ orgs \subseteq {s \in Callers : on[s] # None}
  /\ \A s \in Callers : on[s] # None => Len(applied) = Last

Inv == MigrateInv /\ SetupInv /\ OnInv

LEMMA InitInv == Init => Inv
<1> SUFFICES ASSUME Init PROVE Inv
  OBVIOUS
<1>1. OnInv
  BY DEF Init, OnInv, SetupInit
<1> QED BY <1>1, MigrateInitInv, SetupInitInv DEF Init, Inv

LEMMA MigrateStepInv ==
  ASSUME MigrateInv, NEW i \in Instances,
         Migrate(i) \/ Stop(i) \/ \E c \in Conns : CloseConn(i, c)
  PROVE  MigrateInv' /\ (Len(applied) = Last => Len(applied') = Last)
<1>1. MigrateInv'
  BY StepShape, StepFiles, StepLock DEF MigrateInv
<1>2. Len(applied) = Last => ~ CommitFile(i)
  BY LastAssumption DEF MigrateInv, FilesInv, CommitFile
<1>3. Len(applied) = Last => applied' = applied
  BY <1>2 DEF Migrate, Stop, CloseConn, Connect, EnsureSchema, Apply, Step, Check, Record, TakeLock, Unlock
<1> QED BY <1>1, <1>3

LEMMA NextInv ==
  ASSUME Inv, [Next]_vars
  PROVE  Inv'
<1>1. CASE \E i \in Instances : Run(i)
  <2> PICK i \in Instances : Run(i)
    BY <1>1
  <2>1. SetupInv' /\ (orgs' = orgs /\ on' = on)
    BY DEF Run, Inv, SetupInv, SetupShape, RowsInv, HasOwner, setupVars
  <2>2. MigrateInv' /\ (Len(applied) = Last => Len(applied') = Last)
    BY MigrateStepInv DEF Run, Inv
  <2> QED BY <2>1, <2>2 DEF Inv, OnInv
<1>2. CASE \E i \in Instances : StopServing(i)
  <2> PICK i \in Instances : StopServing(i)
    BY <1>2
  <2>1. SetupInv'
    BY DEF StopServing, Inv, SetupInv, SetupShape, RowsInv, HasOwner, SetupAnswers
  <2>2. MigrateInv' /\ (Len(applied) = Last => Len(applied') = Last)
    BY MigrateStepInv DEF StopServing, Inv
  <2> QED BY <2>1, <2>2 DEF StopServing, Inv, OnInv
<1>3. CASE \E s \in Callers : Serve(s)
  <2> PICK s \in Callers : Serve(s)
    BY <1>3
  <2>1. SetupInv'
    BY SetupStepInv DEF Serve, Inv
  <2>2. orgs' \subseteq orgs \cup {s} /\ on[s] # None
    BY DEF Serve, SetUp, AbortSetup, Count, InsertOrg, InsertOwner, SeedDefaults, CommitOrg
  <2>3. MigrateInv' /\ on' = on /\ applied' = applied
    BY DEF Serve, Inv, migrateVars, MigrateInv, MigrateShape, FilesInv, LockInv,
           MigratedOnceInOrder, Migrating, InTx
  <2> QED BY <2>1, <2>2, <2>3 DEF Inv, OnInv
<1>4. CASE \E s \in Callers, i \in Instances : Accept(s, i)
  <2> PICK s \in Callers, i \in Instances : Accept(s, i)
    BY <1>4
  <2>1. Len(applied) = Last
    BY DEF Accept, Inv, MigrateInv, FilesInv
  <2>2. MigrateInv' /\ SetupInv'
    BY DEF Accept, Inv, migrateVars, MigrateInv, MigrateShape, FilesInv, LockInv,
           MigratedOnceInOrder, Migrating, InTx, setupVars, SetupInv, SetupShape, RowsInv, HasOwner
  <2>3. OnInv'
    BY <2>1, NoneAssumption DEF Accept, Inv, OnInv, migrateVars, setupVars
  <2> QED BY <2>2, <2>3 DEF Inv
<1>5. CASE UNCHANGED vars
  BY <1>5 DEF vars, Inv, OnInv, migrateVars, MigrateInv, MigrateShape, FilesInv, LockInv,
              MigratedOnceInOrder, Migrating, InTx, setupVars, SetupInv, SetupShape, RowsInv, HasOwner
<1> QED BY <1>1, <1>2, <1>3, <1>4, <1>5 DEF Next, Idle

LEMMA Invariance == Spec => []Inv
BY InitInv, NextInv, PTL DEF Spec

(***************************************************************************)
(* Theorems.                                                               *)
(***************************************************************************)

(* The state keeps its shape, and no organisation exists on a schema that  *)
(* is not complete, whichever instance serves the request and whatever     *)
(* fails.                                                                  *)
THEOREM TypeCorrect == Spec => []TypeOK
<1>1. Inv => TypeOK
  BY DEF Inv, OnInv, MigrateInv, MigrateShape, SetupInv, SetupShape, TypeOK
<1> QED BY <1>1, Invariance, PTL

(* Every migration file is committed once, in the order of the names, for  *)
(* any number of instances and whether or not the lock was kept.           *)
THEOREM MigratedOnceInOrderHolds == Spec => []MigratedOnceInOrder
<1>1. Inv => MigratedOnceInOrder
  BY DEF Inv, MigrateInv, FilesInv
<1> QED BY <1>1, Invariance, PTL

(* Two instances migrate at the same time only after a session was closed  *)
(* that held the lock for a migration.                                     *)
THEOREM ExclusiveUnlessLostHolds == Spec => []ExclusiveUnlessLost
<1>1. Inv => ExclusiveUnlessLost
  BY DEF Inv, MigrateInv, LockInv, ExclusiveUnlessLost
<1> QED BY <1>1, Invariance, PTL

(* No instance serves a request before every file is committed.            *)
THEOREM ServesOnlyMigratedHolds == Spec => []ServesOnlyMigrated
<1>1. Inv => ServesOnlyMigrated
  <2> SUFFICES ASSUME Inv, NEW i \in Instances, ipc[i] = "serving", NEW v \in 1 .. Last
               PROVE  IsApplied(v)
    BY DEF ServesOnlyMigrated
  <2>1. Len(applied) = Last
    BY DEF Inv, MigrateInv, FilesInv
  <2> QED BY <2>1, AppliedPrefix, LastAssumption DEF Inv, MigrateInv, FilesInv
<1> QED BY <1>1, Invariance, PTL

(* An organisation is created with its owner and its payroll rules, or not *)
(* at all.                                                                 *)
THEOREM OrgsCompleteHolds == Spec => []OrgsComplete
<1>1. Inv => OrgsComplete
  BY DEF Inv, SetupInv, RowsInv, OrgsComplete
<1> QED BY <1>1, Invariance, PTL

(* However many callers set up at once, no two organisations have an owner *)
(* of the same address.                                                    *)
THEOREM OneOwnerPerEmailHolds == Spec => []OneOwnerPerEmail
<1>1. Inv => OneOwnerPerEmail
  BY DEF Inv, SetupInv, RowsInv, HasOwner, OneOwnerPerEmail
<1> QED BY <1>1, Invariance, PTL

(***************************************************************************)
(* Instances never wait for each other in a cycle.                         *)
(***************************************************************************)

(* The advisory lock is held by an instance that took it and has not ended *)
(* since: never by one that waits for it, or is down.                      *)
HolderInv ==
  \A i \in Instances, c \in Conns : holder = <<i, c>> => Migrating(i) \/ ipc[i] \in {"unlock", "serving"}

LEMMA StepHolder ==
  ASSUME MigrateShape, HolderInv, NEW i \in Instances,
         Migrate(i) \/ Stop(i) \/ \E c \in Conns : CloseConn(i, c)
  PROVE  HolderInv'
<1> USE DEF HolderInv, Migrating, InTx
<1>1. \A j \in Instances, c \in Conns : holder = <<j, c>> => holder # None
  BY NoneAssumption
<1>2. CASE Connect(i)
  BY <1>2 DEF MigrateShape, Connect, Goto
<1>3. CASE EnsureSchema(i) \/ Apply(i)
  BY <1>3 DEF MigrateShape, EnsureSchema, Apply, Step, Goto
<1>4. CASE \E c \in Conns : TakeLock(i, c)
  BY <1>1, <1>4 DEF MigrateShape, TakeLock, Goto
<1>5. CASE Check(i)
  BY <1>5 DEF MigrateShape, Check, Goto
<1>6. ASSUME Down(i)
      PROVE  HolderInv'
  <2>1. \A j \in Instances, c \in Conns : holder' = <<j, c>> => holder = <<j, c>> /\ j # i
    BY <1>6, NoneAssumption DEF Down
  <2>2. \A j \in Instances \ {i} : ipc'[j] = ipc[j]
    BY <1>6 DEF MigrateShape, Down, Goto
  <2> QED BY <2>1, <2>2
<1>7. CASE Record(i)
  <2>1. CASE Down(i)
    BY <1>6, <2>1
  <2>2. CASE Goto(i, "commit") /\ UNCHANGED holder
    BY <2>2 DEF MigrateShape, Goto
  <2> QED BY <1>7, <2>1, <2>2 DEF Record
<1>8. CASE CommitFile(i)
  BY <1>8 DEF MigrateShape, CommitFile, Goto
<1>9. CASE \E c \in Conns : Unlock(i, c)
  BY <1>1, <1>9, NoneAssumption DEF MigrateShape, Unlock, Goto
<1>10. CASE Stop(i)
  BY <1>6, <1>10 DEF Stop
<1>11. CASE \E c \in Conns : CloseConn(i, c)
  BY <1>11, NoneAssumption DEF CloseConn
<1> QED BY <1>2, <1>3, <1>4, <1>5, <1>7, <1>8, <1>9, <1>10, <1>11 DEF Migrate

LEMMA HolderInvariance == Spec => []HolderInv
<1>1. Init => HolderInv
  BY NoneAssumption DEF Init, MigrateInit, HolderInv
<1>2. Inv /\ HolderInv /\ [Next]_vars => HolderInv'
  <2> SUFFICES ASSUME Inv, HolderInv, [Next]_vars PROVE HolderInv'
    OBVIOUS
  <2>1. MigrateShape
    BY DEF Inv, MigrateInv
  <2>2. CASE \E i \in Instances : Run(i) \/ StopServing(i)
    BY <2>1, <2>2, StepHolder DEF Run, StopServing
  <2>3. CASE UNCHANGED migrateVars
    BY <2>3 DEF migrateVars, HolderInv, Migrating, InTx
  <2> QED BY <2>2, <2>3 DEF Next, Serve, Accept, Idle, vars
<1> QED BY <1>1, <1>2, Invariance, PTL DEF Spec

(* The next statement of i waits for instance j: for its lock, or for its  *)
(* row of schema_migrations.                                               *)
WaitsFor(i, j) ==
  \/ ipc[i] = "lock" /\ \E c \in Conns : holder = <<j, c>>
  \/ ipc[i] = "record" /\ i # j /\ ipc[j] = "commit" /\ file[j] = file[i]

Level(i) == IF ipc[i] \in {"down", "schema", "lock"} THEN 0 ELSE IF ipc[i] = "record" THEN 1 ELSE 2

LEMMA WaitsForLater ==
  ASSUME HolderInv, NEW i \in Instances, NEW j \in Instances, WaitsFor(i, j)
  PROVE  Level(i) < Level(j)
BY DEF HolderInv, WaitsFor, Level, Migrating, InTx

(* Whoever is waited for is further on: the advisory lock and the primary  *)
(* key of schema_migrations cannot block each other, also when the lock    *)
(* was lost or an unlock missed the session that holds it.                 *)
THEOREM NoWaitCycle == Spec => [](\A i, j \in Instances : WaitsFor(i, j) => Level(i) < Level(j))
<1>1. HolderInv => \A i, j \in Instances : WaitsFor(i, j) => Level(i) < Level(j)
  BY WaitsForLater
<1> QED BY <1>1, HolderInvariance, PTL

(* Nobody is in the way of i, which has statements to execute before it    *)
(* serves, or a connection to close that still holds the lock.             *)
Unhindered(i) ==
  /\ \A j \in Instances : ~ WaitsFor(i, j)
  /\ ipc[i] # "serving" \/ \E c \in Conns : holder = <<i, c>>

(* The part of EveryInstanceServes that is safety: as long as an instance  *)
(* does not serve, one of them can go on without the failure of another.   *)
THEOREM SomeoneGoesOn ==
  Spec => []((\E i \in Instances : ipc[i] # "serving") => \E i \in Instances : Unhindered(i))
<1>1. HolderInv => ((\E i \in Instances : ipc[i] # "serving") => \E i \in Instances : Unhindered(i))
  <2> SUFFICES ASSUME HolderInv, NEW i \in Instances, ipc[i] # "serving"
               PROVE  \E j \in Instances : Unhindered(j)
    OBVIOUS
  (* One at its commit waits for nobody, one at its row only for such. *)
  <2>1. ASSUME NEW j \in Instances, ipc[j] \notin {"lock", "record"},
               ipc[j] # "serving" \/ \E c \in Conns : holder = <<j, c>>
        PROVE  Unhindered(j)
    BY <2>1 DEF Unhindered, WaitsFor
  <2>2. ASSUME NEW j \in Instances, ipc[j] = "record"
        PROVE  \E k \in Instances : Unhindered(k)
    <3>1. CASE \E k \in Instances : WaitsFor(j, k)
      BY <2>1, <2>2, <3>1 DEF WaitsFor
    <3>2. CASE ~ \E k \in Instances : WaitsFor(j, k)
      BY <2>2, <3>2 DEF Unhindered
    <3> QED BY <3>1, <3>2
  <2>3. CASE ipc[i] = "lock"
    <3>1. CASE \E j \in Instances : WaitsFor(i, j)
      <4>1. PICK j \in Instances : \E c \in Conns : holder = <<j, c>>
        BY <2>3, <3>1 DEF WaitsFor
      <4>2. ipc[j] # "lock"
        BY <4>1 DEF HolderInv, Migrating, InTx
      <4> QED BY <2>1, <2>2, <4>1, <4>2
    <3>2. CASE ~ \E j \in Instances : WaitsFor(i, j)
      BY <2>3, <3>2 DEF Unhindered
    <3> QED BY <3>1, <3>2
  <2> QED BY <2>1, <2>2, <2>3
<1> QED BY <1>1, HolderInvariance, PTL

(***************************************************************************)
(* What it would take for /setup to be once only.                          *)
(***************************************************************************)
SetupEnded(s) == spc[s] \in SetupAnswers \cup {"new"}

(* A request counts organisations only while no other is under way, which  *)
(* a lock taken before the SELECT would ensure.                            *)
CountsAlone ==
  \A s \in Callers : spc[s] = "new" /\ spc'[s] = "org" => \A t \in Callers \ {s} : SetupEnded(t)

AloneInv ==
  /\ SetupOnce
  /\ \A s \in Callers : ~ SetupEnded(s) => orgs = {} /\ \A t \in Callers \ {s} : SetupEnded(t)

LEMMA SetupAlone ==
  ASSUME SetupInv, AloneInv, NEW s \in Callers, SetUp(s) \/ AbortSetup(s), CountsAlone
  PROVE  AloneInv'
<1> USE DEF AloneInv, SetupOnce, SetupEnded, SetupInv, SetupShape, SetupGoto, SetupAnswers
<1>1. \A t \in Callers \ {s} : spc'[t] = spc[t]
  BY DEF SetUp, AbortSetup, Count, InsertOrg, InsertOwner, SeedDefaults, CommitOrg
<1>2. CASE Count(s)
  BY <1>1, <1>2 DEF Count, CountsAlone
<1>3. CASE InsertOrg(s) \/ InsertOwner(s) \/ SeedDefaults(s)
  <2>1. orgs' = orgs /\ ~ SetupEnded(s)
    BY <1>3 DEF InsertOrg, InsertOwner, SeedDefaults
  <2> QED BY <1>1, <2>1
<1>4. CASE CommitOrg(s)
  <2>1. orgs' = {s} /\ SetupEnded(s)' /\ \A t \in Callers \ {s} : SetupEnded(t)
    BY <1>4 DEF CommitOrg
  <2> QED BY <1>1, <2>1
<1>5. CASE AbortSetup(s)
  BY <1>1, <1>5 DEF AbortSetup
<1> QED BY <1>2, <1>3, <1>4, <1>5 DEF SetUp

(* Finding 4 has this one cause: a second organisation needs a caller that *)
(* counts while another one is between its own count and its end.          *)
THEOREM SetupOnceIfCountedAlone == Spec /\ [][CountsAlone]_vars => []SetupOnce
<1>1. Init => AloneInv
  BY DEF Init, SetupInit, AloneInv, SetupOnce, SetupEnded
<1>2. Inv /\ AloneInv /\ [Next]_vars /\ [CountsAlone]_vars => AloneInv'
  <2> SUFFICES ASSUME Inv, AloneInv, [Next]_vars, [CountsAlone]_vars PROVE AloneInv'
    OBVIOUS
  <2>1. CASE UNCHANGED setupVars
    BY <2>1 DEF setupVars, AloneInv, SetupOnce, SetupEnded
  <2>2. CASE \E i \in Instances : StopServing(i)
    <3>1. /\ orgs' = orgs
          /\ \A s \in Callers : SetupEnded(s)' \/ spc'[s] = spc[s]
      BY <2>2 DEF StopServing, SetupEnded, SetupAnswers
    <3>2. \A s \in Callers : spc[s] = "new" => SetupEnded(s)
      BY DEF SetupEnded
    <3>3. \A s \in Callers : SetupEnded(s) => SetupEnded(s)'
      BY <3>1 DEF SetupEnded
    <3>4. \A s \in Callers : ~ SetupEnded(s)' => ~ SetupEnded(s)
      BY <3>1 DEF SetupEnded
    <3> QED BY <3>1, <3>3, <3>4 DEF AloneInv, SetupOnce
  <2>3. ASSUME NEW s \in Callers, Serve(s), CountsAlone
        PROVE  AloneInv'
    BY <2>3, SetupAlone DEF Serve, Inv
  <2>4. CASE CountsAlone
    BY <2>1, <2>2, <2>3, <2>4 DEF Next, Run, Accept, Idle, vars
  <2>5. CASE UNCHANGED vars
    BY <2>1, <2>5 DEF vars
  <2> QED BY <2>4, <2>5
<1>3. AloneInv => SetupOnce
  BY DEF AloneInv
<1> QED BY <1>1, <1>2, <1>3, Invariance, PTL DEF Spec
=============================================================================
