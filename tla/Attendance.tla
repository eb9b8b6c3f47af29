----------------------------- MODULE Attendance ------------------------------
(***************************************************************************)
(* Clocking in and out: the mobile clock handler (handleAttendanceClock)   *)
(* and the face-device webhook (faceDeviceEvent) as interleaved READ       *)
(* COMMITTED transactions.  One element of Requests is one HTTP request,   *)
(* one action is one SQL statement that other transactions can tell apart. *)
(*                                                                         *)
(* A row written by a running transaction is not stored: which rows a      *)
(* request has pending, and which locks it holds, follow from its `pc`.    *)
(* The row of attendance_events has the identity of the request that       *)
(* inserts it, and a row of attendance_sessions that of its clock_in_id.   *)
(***************************************************************************)
EXTENDS Integers, FiniteSets

CONSTANTS
  Requests,     \* HTTP requests, each served once
  Users,        \* employees of one organisation
  Tokens,       \* active rows of attendance_qr_tokens
  DeviceEvents, \* (device_sn, external_event_id) pairs
  None,         \* SQL NULL
  Inputs,       \* the request bodies that arrive
  MaxTime,      \* bound of the wall clock
  Window,       \* FRAUD_DUPLICATE_SECONDS
  BlockScore    \* FRAUD_BLOCK_SCORE

Time == 0 .. MaxTime

(* `base` is the score of the signals that depend on the evidence alone.   *)
Bodies ==
  [route : {"mobile"}, kind : {"in", "out"}, user : Users,
   token : Tokens \cup {None}, ext : {None}, base : Nat]
  \cup
  [route : {"device"}, kind : {"in", "out"}, user : Users,
   token : {None}, ext : DeviceEvents \cup {None}, base : {0}]

ASSUME NoneAssumption == None \notin Requests \cup Users \cup Tokens \cup DeviceEvents
ASSUME InputsAssumption == Inputs \subseteq Bodies
ASSUME TimeAssumption == MaxTime \in Nat /\ Window \in Nat
(* Config.Validate: 1 <= FRAUD_WARN_SCORE <= FRAUD_BLOCK_SCORE. *)
ASSUME ScoreAssumption == BlockScore \in Nat \ {0}

VARIABLES
  clock,      \* time.Now()
  pc,         \* pc[r]: the next statement of r, or its answer
  body,       \* body[r]: the decoded request
  at,         \* at[r]: event_at
  signals,    \* signals[r]: the history-dependent fraud signals r scored
  target,     \* target[r]: the session row r waits for or has locked
  events,     \* committed rows of attendance_events
  sessions,   \* committed rows of attendance_sessions
  clockOut,   \* clockOut[s]: clock_out_id
  minutes,    \* minutes[s]: total_minutes
  scans,      \* scans[t]: scan_count
  blocked     \* committed attendance.blocked_by_fraud rows of audit_logs

vars == <<clock, pc, body, at, signals, target,
          events, sessions, clockOut, minutes, scans, blocked>>

tables == <<events, sessions, clockOut, minutes, scans, blocked>>

Answers == {"created", "conflict", "forbidden", "duplicate", "refused", "error"}

(* The statements a transaction is at between its first write and its end. *)
Running == {"assess", "block", "select", "wait", "insert", "commit"}

Statements == Running \cup {"evidence", "dedupe", "insdev", "committed"}

User(r) == body[r].user
Kind(r) == body[r].kind
Token(r) == body[r].token
Ext(r)  == body[r].ext

(***************************************************************************)
(* Locks and uncommitted rows.                                             *)
(***************************************************************************)

(* Seeded faults: the scan is counted by the last statement instead of the *)
(* first; a 409 leaves the transaction open.                               *)
HoldsTokenLate(r, t) == pc[r] = "commit" /\ Token(r) = t

HoldsTokenLeaked(r, t) == pc[r] \in Running \cup {"conflict"} /\ Token(r) = t

(* r updated scan_count of t and has not ended: it holds t's row lock. *)
HoldsToken(r, t) == pc[r] \in Running /\ Token(r) = t

(* r inserted device event x and has not ended. *)
InsertedDevice(r, x) ==
  /\ pc[r] \in {"select", "wait", "insert", "commit"}
  /\ Ext(r) = x

(* r inserted an open session of u and has not ended. *)
InsertedOpen(r, u) == pc[r] = "commit" /\ Kind(r) = "in" /\ User(r) = u

(* Seeded fault: the SELECT has no FOR UPDATE and the UPDATE no guard. *)
HoldsSessionUnlocked(r, s) == FALSE

(* r closed session s and has not ended: it holds the lock of row s. *)
HoldsSession(r, s) == pc[r] = "commit" /\ Kind(r) = "out" /\ target[r] = s

Open(u) == {s \in sessions : User(s) = u /\ clockOut[s] = None}

Locked(s) == \E q \in Requests : HoldsSession(q, s)

(***************************************************************************)
(* Fraud signals that read the history of the employee.                    *)
(***************************************************************************)
Recent(r, now) == {e \in events : User(e) = User(r) /\ at[e] >= now - Window}

Replayed(r, now) ==
  Token(r) # None /\ \E e \in Recent(r, now) : Token(e) = Token(r)

Repeated(r, now) == \E e \in Recent(r, now) : Kind(e) = Kind(r)

Signals(r, now) ==
  (IF Replayed(r, now) THEN {"replay"} ELSE {}) \cup
  (IF Repeated(r, now) THEN {"duplicate"} ELSE {})

Score(base, sigs) ==
  base + (IF "replay" \in sigs THEN 35 ELSE 0)
       + (IF "duplicate" \in sigs THEN 25 ELSE 0)

(***************************************************************************)
(* Initial state: the tables are empty, nothing has arrived.               *)
(***************************************************************************)
Init ==
  /\ clock = 0
  /\ pc = [r \in Requests |-> "new"]
  /\ body = [r \in Requests |-> None]
  /\ at = [r \in Requests |-> 0]
  /\ signals = [r \in Requests |-> {}]
  /\ target = [r \in Requests |-> None]
  /\ events = {}
  /\ sessions = {}
  /\ clockOut = [r \in Requests |-> None]
  /\ minutes = [r \in Requests |-> 0]
  /\ scans = [t \in Tokens |-> 0]
  /\ blocked = {}

Goto(r, l) == pc' = [pc EXCEPT ![r] = l]

(* r answers and writes nothing more; a transaction still running is       *)
(* rolled back by the deferred tx.Rollback.                                *)
End(r, answer) ==
  /\ Goto(r, answer)
  /\ UNCHANGED <<clock, body, at, signals, target, tables>>

(***************************************************************************)
(* Arrival, and the part of the mobile handler before the session.         *)
(***************************************************************************)

(* A well-formed request begins its transaction.  A device dates its own   *)
(* event, with any time: resent events are late, clocks are skewed.        *)
Receive(r, b, t) ==
  /\ pc[r] = "new"
  /\ body' = [body EXCEPT ![r] = b]
  /\ IF b.route = "device"
       THEN /\ at' = [at EXCEPT ![r] = t]
            /\ Goto(r, IF b.ext = None THEN "insdev" ELSE "dedupe")
       ELSE /\ t = clock
            /\ Goto(r, "evidence")
            /\ UNCHANGED at
  /\ UNCHANGED <<clock, signals, target, tables>>

(* Bad evidence, unknown or inactive employee: 400 or 404. *)
Refuse(r) ==
  /\ \/ pc[r] = "evidence"
     \/ pc[r] = "dedupe"
     \/ pc[r] = "insdev" /\ Ext(r) = None
  /\ End(r, "refused")

(* Seeded fault: the scan is counted through the pool, not the transaction. *)
EvidenceAutocommit(r) ==
  /\ pc[r] = "evidence"
  /\ Goto(r, "assess")
  /\ scans' = IF Token(r) = None THEN scans ELSE [scans EXCEPT ![Token(r)] = @ + 1]
  /\ UNCHANGED <<clock, body, at, signals, target,
                 events, sessions, clockOut, minutes, blocked>>

(* verifyAttendanceEvidence.  For a QR punch the UPDATE of scan_count      *)
(* waits for, then takes, the lock of the token's row.                     *)
Evidence(r) ==
  /\ pc[r] = "evidence"
  /\ \A q \in Requests : ~ (Token(r) # None /\ HoldsToken(q, Token(r)))
  /\ Goto(r, "assess")
  /\ UNCHANGED <<clock, body, at, signals, target, tables>>

(* Seeded fault: the event is inserted through the pool. *)
AssessAutocommit(r) ==
  /\ pc[r] = "assess"
  /\ at' = [at EXCEPT ![r] = clock]
  /\ events' = events \cup {r}
  /\ Goto(r, "select")
  /\ UNCHANGED <<clock, body, signals, target,
                 sessions, clockOut, minutes, scans, blocked>>

(* assessAttendanceFraud reads committed punches and takes no lock.  The   *)
(* event is dated here, after the evidence was verified.                   *)
Assess(r) ==
  /\ pc[r] = "assess"
  /\ at' = [at EXCEPT ![r] = clock]
  /\ LET sigs == Signals(r, clock) IN
       /\ signals' = [signals EXCEPT ![r] = sigs]
       /\ Goto(r, IF Score(body[r].base, sigs) >= BlockScore
                    THEN "block" ELSE "select")
  /\ UNCHANGED <<clock, body, target, tables>>

(* A blocked attempt commits its audit row, and with it the scan it made.  *)
(* The handler ignores the outcome of that commit and answers 403.         *)
Block(r) ==
  /\ pc[r] = "block"
  /\ Goto(r, "forbidden")
  /\ \/ /\ blocked' = blocked \cup {r}
        /\ scans' = IF Token(r) = None THEN scans
                    ELSE [scans EXCEPT ![Token(r)] = @ + 1]
     \/ UNCHANGED <<blocked, scans>>
  /\ UNCHANGED <<clock, body, at, signals, target,
                 events, sessions, clockOut, minutes>>

(***************************************************************************)
(* The part of the device webhook before the session.                      *)
(***************************************************************************)

(* The SELECT sees committed device events only. *)
Dedupe(r) ==
  /\ pc[r] = "dedupe"
  /\ Goto(r, IF \E e \in events : Ext(e) = Ext(r) THEN "duplicate" ELSE "insdev")
  /\ UNCHANGED <<clock, body, at, signals, target, tables>>

(* Seeded fault: migration 0002 did not create the index. *)
InsertDeviceNoIndex(r) ==
  /\ pc[r] = "insdev"
  /\ Goto(r, "select")
  /\ UNCHANGED <<clock, body, at, signals, target, tables>>

(* idx_device_events_external_id: the INSERT waits for a transaction that  *)
(* has the same key pending and fails (500) on a committed one.            *)
InsertDevice(r) ==
  /\ pc[r] = "insdev"
  /\ \A q \in Requests : ~ (Ext(r) # None /\ InsertedDevice(q, Ext(r)))
  /\ Goto(r, IF Ext(r) # None /\ \E e \in events : Ext(e) = Ext(r)
               THEN "error" ELSE "select")
  /\ UNCHANGED <<clock, body, at, signals, target, tables>>

(***************************************************************************)
(* The session, the same for both routes.                                  *)
(***************************************************************************)

(* Seeded fault: the 409 for "no open session" commits the event. *)
NoOpenRowKeepsPunch(r) ==
  /\ Goto(r, IF Kind(r) = "in" THEN "insert" ELSE "error")
  /\ target' = [target EXCEPT ![r] = None]
  /\ events' = IF Kind(r) = "in" THEN events ELSE events \cup {r}
  /\ UNCHANGED <<clock, body, at, signals,
                 sessions, clockOut, minutes, scans, blocked>>

(* SELECT ... FOR UPDATE returned no row: "in" goes on to the INSERT, for  *)
(* "out" there is nothing to close (409).                                  *)
NoOpenRow(r) ==
  /\ Goto(r, IF Kind(r) = "in" THEN "insert" ELSE "conflict")
  /\ target' = [target EXCEPT ![r] = None]
  /\ UNCHANGED <<clock, body, at, signals, tables>>

(* It returned row s, now locked: "out" closes it, "in" answers 409. *)
OpenRow(r, s) ==
  /\ Goto(r, IF Kind(r) = "out" THEN "commit" ELSE "conflict")
  /\ target' = [target EXCEPT ![r] = IF Kind(r) = "out" THEN s ELSE None]
  /\ UNCHANGED <<clock, body, at, signals, tables>>

(* The open row another transaction is closing: wait for that transaction. *)
AwaitRow(r, s) ==
  /\ Goto(r, "wait")
  /\ target' = [target EXCEPT ![r] = s]
  /\ UNCHANGED <<clock, body, at, signals, tables>>

SelectOpen(r) ==
  /\ pc[r] = "select"
  /\ \/ Open(User(r)) = {} /\ NoOpenRow(r)
     \/ \E s \in Open(User(r)) : ~ Locked(s) /\ OpenRow(r, s)
     \/ \E s \in Open(User(r)) : Locked(s) /\ AwaitRow(r, s)

(* Seeded fault: the row is used as it was when the wait began. *)
RecheckStale(r) ==
  /\ pc[r] = "wait"
  /\ ~ Locked(target[r])
  /\ OpenRow(r, target[r])

(* The wait is over: PostgreSQL evaluates the WHERE clause again on the    *)
(* new version of that row, and on no other row.                           *)
Recheck(r) ==
  /\ pc[r] = "wait"
  /\ ~ Locked(target[r])
  /\ IF clockOut[target[r]] = None
       THEN OpenRow(r, target[r]) ELSE NoOpenRow(r)

(* Seeded fault: the partial unique index is missing. *)
InsertSessionNoIndex(r) ==
  /\ pc[r] = "insert"
  /\ Goto(r, "commit")
  /\ UNCHANGED <<clock, body, at, signals, target, tables>>

(* idx_sessions_one_open_per_user: the INSERT waits for a transaction that *)
(* has an open session of the user pending or is closing the one there is, *)
(* and fails (500) if an open session remains.                             *)
InsertSession(r) ==
  /\ pc[r] = "insert"
  /\ \A q \in Requests : ~ InsertedOpen(q, User(r))
  /\ \A s \in Open(User(r)) : ~ Locked(s)
  /\ Goto(r, IF Open(User(r)) = {} THEN "commit" ELSE "error")
  /\ UNCHANGED <<clock, body, at, signals, target, tables>>

(* total_minutes of a shift: negative when a device dates its event before *)
(* the clock-in, and then recorded as 0.                                   *)
Worked(in, out) == IF out >= in THEN out - in ELSE 0

(* Seeded fault: the error of tx.Commit is ignored, as it is in the path   *)
(* of a blocked attempt.                                                   *)
CommitUnchecked(r) == pc[r] = "commit" /\ End(r, "committed")

(* The punch and its session become visible in one step, with the scan.    *)
Commit(r) ==
  /\ pc[r] = "commit"
  /\ Goto(r, "committed")
  /\ events' = events \cup {r}
  /\ scans' = IF Token(r) = None THEN scans ELSE [scans EXCEPT ![Token(r)] = @ + 1]
  /\ IF Kind(r) = "in"
       THEN /\ sessions' = sessions \cup {r}
            /\ UNCHANGED <<clockOut, minutes>>
       ELSE /\ clockOut' = [clockOut EXCEPT ![target[r]] = r]
            /\ minutes' = [minutes EXCEPT ![target[r]] = Worked(at[target[r]], at[r])]
            /\ UNCHANGED sessions
  /\ UNCHANGED <<clock, body, at, signals, target, blocked>>

(* 201. *)
Reply(r) == pc[r] = "committed" /\ End(r, "created")

(* Commit succeeded in the database, but its confirmation or the answer    *)
(* was lost (timeout, crash): the client is told nothing or 500.           *)
LoseAnswer(r) == pc[r] = "committed" /\ End(r, "error")

(* Any statement before the commit may fail: deadline, connection, crash.  *)
Abort(r) == pc[r] \in Statements \ {"committed"} /\ End(r, "error")

Tick ==
  /\ clock < MaxTime
  /\ clock' = clock + 1
  /\ UNCHANGED <<pc, body, at, signals, target, tables>>

(* Every request has been answered; the server waits for more. *)
Idle == (\A r \in Requests : pc[r] \in Answers) /\ UNCHANGED vars

(* What a request does when nothing fails. *)
Serve(r) ==
  \/ Evidence(r) \/ Assess(r) \/ Block(r)
  \/ Dedupe(r) \/ InsertDevice(r)
  \/ SelectOpen(r) \/ Recheck(r) \/ InsertSession(r)
  \/ Commit(r) \/ Reply(r)

Fail(r) == Refuse(r) \/ Abort(r) \/ LoseAnswer(r)

Next ==
  \/ \E r \in Requests, b \in Inputs, t \in Time : Receive(r, b, t)
  \/ \E r \in Requests : Serve(r) \/ Fail(r)
  \/ Tick
  \/ Idle

Spec == Init /\ [][Next]_vars

(* A handler goroutine keeps running and PostgreSQL keeps executing its    *)
(* statements; no request has to arrive and nothing has to fail.           *)
Fairness == \A r \in Requests : WF_vars(Serve(r))

FairSpec == Spec /\ Fairness

(***************************************************************************)
(* Properties.                                                             *)
(***************************************************************************)

(* The tables and every request's local state have the shape the schema    *)
(* and the handlers give them; a request that works on a body has one.     *)
TypeOK ==
  /\ clock \in Time
  /\ pc \in [Requests -> {"new"} \cup Statements \cup Answers]
  /\ body \in [Requests -> Inputs \cup {None}]
  /\ \A r \in Requests : pc[r] # "new" => body[r] \in Inputs
  /\ at \in [Requests -> Time]
  /\ signals \in [Requests -> SUBSET {"replay", "duplicate"}]
  /\ target \in [Requests -> Requests \cup {None}]
  /\ events \subseteq {r \in Requests : pc[r] \in {"committed", "created", "error"}}
  /\ sessions \subseteq events
  /\ clockOut \in [Requests -> events \cup {None}]
  /\ minutes \in [Requests -> Nat]
  /\ scans \in [Tokens -> Nat]
  /\ blocked \subseteq {r \in Requests : pc[r] = "forbidden"}

(* However the requests interleave, an employee has at most one open       *)
(* session: neither handler's SELECT ... FOR UPDATE can lock the absence   *)
(* of a row, so two clock-ins may both pass it.                            *)
OneOpenSession ==
  \A s1, s2 \in sessions :
    /\ User(s1) = User(s2)
    /\ clockOut[s1] = None /\ clockOut[s2] = None
    => s1 = s2

(* Every committed punch is the clock-in of its own session or ends        *)
(* exactly one session, of the same employee: no answer other than 201     *)
(* and no race leaves a punch outside the sessions payroll counts.         *)
PunchesPairUp ==
  /\ \A e \in events :
       IF Kind(e) = "in" THEN e \in sessions
       ELSE \E s \in sessions : clockOut[s] = e /\ User(s) = User(e)
  /\ \A s \in sessions : Kind(s) = "in"
  /\ \A s \in Requests : clockOut[s] # None =>
       /\ s \in sessions
       /\ Kind(clockOut[s]) = "out" /\ User(clockOut[s]) = User(s)
       /\ \A s2 \in Requests : clockOut[s2] = clockOut[s] => s2 = s

(* A device event that carries an external id is punched at most once,     *)
(* however often and however concurrently the device sends it, and an      *)
(* answer duplicate:true is given only for one that is recorded.           *)
DeviceIdempotent ==
  /\ \A e1, e2 \in events : Ext(e1) # None /\ Ext(e1) = Ext(e2) => e1 = e2
  /\ \A r \in Requests : pc[r] = "duplicate" => \E e \in events : Ext(e) = Ext(r)

(* What the client was told is true and stays true: 201 means the punch is *)
(* recorded, 403, 409 and 400 mean it is not and never will be.            *)
AnswersTruthful ==
  \A r \in Requests :
    /\ pc[r] = "created" => r \in events
    /\ pc[r] \in {"conflict", "forbidden", "refused", "duplicate"} => r \notin events

(* scan_count of a token is the number of recorded punches and of blocked  *)
(* attempts made with it: a scan refused later leaves no trace.            *)
ScansCounted ==
  \A t \in Tokens :
    scans[t] = Cardinality({r \in events \cup blocked : Token(r) = t})

(* Two punches of an employee with the same QR token within the window     *)
(* never both pass as first use: the scan_count UPDATE locks the token     *)
(* before the history is read, so the later request sees the earlier one.  *)
ReplayNoticed ==
  \A e1, e2 \in events :
    /\ e1 # e2
    /\ User(e1) = User(e2) /\ Token(e1) = Token(e2) /\ Token(e1) # None
    /\ at[e1] - at[e2] \in -Window .. Window
    => "replay" \in signals[e1] \cup signals[e2]

(* A finished shift is final: no later request reopens it, ends it again   *)
(* or changes its minutes, nor does any punch ever disappear.              *)
FinishedShiftsFrozen ==
  [][\A s \in sessions :
       /\ s \in sessions'
       /\ clockOut[s] # None =>
            clockOut'[s] = clockOut[s] /\ minutes'[s] = minutes[s]]_vars

(* Clock-ins and clock-outs of every employee alternate, and each commit   *)
(* is one step of the abstract ledger: the refinement mapping takes the    *)
(* open session as the shift in progress, the closed ones as finished.     *)
The(S) == IF S = {} THEN None ELSE CHOOSE s \in S : TRUE

OnShift(u) == The(Open(u))

Ledger == INSTANCE ShiftLedger WITH
  Punches <- Requests,
  onShift <- [u \in Users |-> OnShift(u)],
  shifts  <- {[user |-> User(s), in |-> s, out |-> clockOut[s]] :
                s \in {s \in sessions : clockOut[s] # None}}

LedgerSpec == Ledger!Spec

(* If nothing fails every request is answered: the waits for token rows,   *)
(* device keys and session rows never form a cycle, and every answer       *)
(* releases what the request held.                                         *)
EveryRequestAnswered ==
  \A r \in Requests : pc[r] # "new" ~> pc[r] \in Answers

(* The event of a device that resends it is answered duplicate:true, as    *)
(* V5_3_OPTIMIZATION.md says, never 500: of a handler in which no          *)
(* statement fails for a reason of its own (FaultFreeSpec).                *)
ResendAnsweredDuplicate ==
  \A r \in Requests : pc[r] = "error" =>
    \A e \in events : r # e /\ Ext(r) # None => Ext(r) # Ext(e)

FaultFreeNext ==
  \/ \E r \in Requests, b \in Inputs, t \in Time : Receive(r, b, t)
  \/ \E r \in Requests : Serve(r)
  \/ Tick
  \/ Idle

FaultFreeSpec == Init /\ [][FaultFreeNext]_vars
=============================================================================
