-------------------------- MODULE AttendanceProofs ---------------------------
(***************************************************************************)
(* Theorems about Attendance, for every set of requests, employees, tokens *)
(* and device events and every bound of the clock.                         *)
(***************************************************************************)
EXTENDS Attendance, FiniteSetTheorems, TLAPS

(* A transaction about to close a session holds the lock of an open        *)
(* session of its employee, alone; one that waits, waits for a session of  *)
(* its employee.  Only a clock-in inserts a session.                       *)
LockInv ==
  /\ \A r \in Requests : pc[r] = "commit" /\ Kind(r) = "out" =>
       target[r] \in Open(User(r))
  /\ \A r1, r2 \in Requests, s \in sessions :
       HoldsSession(r1, s) /\ HoldsSession(r2, s) => r1 = r2
  /\ \A r \in Requests : pc[r] = "wait" =>
       target[r] \in sessions /\ User(target[r]) = User(r)
  /\ \A r \in Requests : pc[r] = "insert" => Kind(r) = "in"

TypeInv == TypeOK /\ LockInv

LEMMA ClockIsTime == ASSUME clock \in Time, clock < MaxTime PROVE clock + 1 \in Time
BY TimeAssumption, SMT DEF Time

LEMMA WorkedNat == ASSUME NEW a \in Time, NEW b \in Time PROVE Worked(a, b) \in Nat
BY TimeAssumption, SMT DEF Worked, Time

LEMMA InitType == Init => TypeInv
<1> SUFFICES ASSUME Init PROVE TypeInv OBVIOUS
<1>1. TypeOK
  BY TimeAssumption DEF Init, TypeOK, Time
<1>2. LockInv
  BY DEF Init, LockInv, HoldsSession
<1> QED BY <1>1, <1>2 DEF TypeInv

LEMMA ReceiveType ==
  ASSUME TypeInv, NEW r \in Requests, NEW b \in Inputs, NEW t \in Time, Receive(r, b, t)
  PROVE TypeInv'
<1>1. TypeOK'
  BY DEF TypeInv, TypeOK, Receive, Goto, tables, Statements, Answers, Running
<1>2. LockInv'
  BY DEF TypeInv, TypeOK, LockInv, Receive, Goto, tables, Open, HoldsSession, User, Kind, Statements, Answers, Running
<1> QED BY <1>1, <1>2 DEF TypeInv

LEMMA EndType ==
  ASSUME TypeInv, NEW r \in Requests, NEW a \in Answers, pc[r] \in Statements,
         End(r, a), r \in events => a \in {"created", "error"}, r \notin blocked
  PROVE TypeInv'
<1>1. TypeOK'
  BY DEF TypeInv, TypeOK, End, Goto, tables, Statements, Answers, Running
<1>2. LockInv'
  BY DEF TypeInv, TypeOK, LockInv, End, Goto, tables, Open, HoldsSession, User, Kind, Statements, Answers, Running
<1> QED BY <1>1, <1>2 DEF TypeInv
LEMMA EvidenceType ==
  ASSUME TypeInv, NEW r \in Requests, Evidence(r)
  PROVE TypeInv'
<1>1. TypeOK'
  BY DEF TypeInv, TypeOK, Evidence, Goto, tables, Statements, Answers, Running
<1>2. LockInv'
  BY DEF TypeInv, TypeOK, LockInv, Evidence, Goto, tables, Open, HoldsSession,
     User, Kind, Statements, Answers, Running
<1> QED BY <1>1, <1>2 DEF TypeInv

LEMMA AssessType ==
  ASSUME TypeInv, NEW r \in Requests, Assess(r)
  PROVE TypeInv'
<1>1. TypeOK'
  BY DEF TypeInv, TypeOK, Assess, Signals, Goto, tables, Statements, Answers, Running
<1>2. LockInv'
  BY DEF TypeInv, TypeOK, LockInv, Assess, Signals, Goto, tables, Open, HoldsSession,
     User, Kind, Statements, Answers, Running
<1> QED BY <1>1, <1>2 DEF TypeInv

LEMMA DedupeType ==
  ASSUME TypeInv, NEW r \in Requests, Dedupe(r)
  PROVE TypeInv'
<1>1. TypeOK'
  BY DEF TypeInv, TypeOK, Dedupe, Goto, tables, Statements, Answers, Running
<1>2. LockInv'
  BY DEF TypeInv, TypeOK, LockInv, Dedupe, Goto, tables, Open, HoldsSession,
     User, Kind, Statements, Answers, Running
<1> QED BY <1>1, <1>2 DEF TypeInv

LEMMA InsertDeviceType ==
  ASSUME TypeInv, NEW r \in Requests, InsertDevice(r)
  PROVE TypeInv'
<1>1. TypeOK'
  BY DEF TypeInv, TypeOK, InsertDevice, Goto, tables, Statements, Answers, Running
<1>2. LockInv'
  BY DEF TypeInv, TypeOK, LockInv, InsertDevice, Goto, tables, Open, HoldsSession,
     User, Kind, Statements, Answers, Running
<1> QED BY <1>1, <1>2 DEF TypeInv

LEMMA InsertSessionType ==
  ASSUME TypeInv, NEW r \in Requests, InsertSession(r)
  PROVE TypeInv'
<1>1. TypeOK'
  BY DEF TypeInv, TypeOK, InsertSession, Goto, tables, Statements, Answers, Running
<1>2. LockInv'
  BY DEF TypeInv, TypeOK, LockInv, InsertSession, Goto, tables, Open, HoldsSession,
     User, Kind, Statements, Answers, Running
<1> QED BY <1>1, <1>2 DEF TypeInv

LEMMA BlockType ==
  ASSUME TypeInv, NEW r \in Requests, Block(r)
  PROVE TypeInv'
<1>1. TypeOK'
  BY InputsAssumption, NoneAssumption DEF TypeInv, TypeOK, Block, Token, Bodies, Goto, tables, Statements, Answers, Running
<1>2. LockInv'
  BY DEF TypeInv, TypeOK, LockInv, Block, Token, Bodies, Goto, tables, Open, HoldsSession,
     User, Kind, Statements, Answers, Running
<1> QED BY <1>1, <1>2 DEF TypeInv

LEMMA SelectType ==
  ASSUME TypeInv, NEW r \in Requests, SelectOpen(r)
  PROVE TypeInv'
<1>1. TypeOK'
  BY DEF TypeInv, TypeOK, SelectOpen, NoOpenRow, OpenRow, AwaitRow, Locked, Open, User, Goto, tables, Statements, Answers, Running
<1>2. LockInv'
  BY DEF TypeInv, TypeOK, LockInv, SelectOpen, NoOpenRow, OpenRow, AwaitRow, Locked, Open, User, Goto, tables, Open, HoldsSession,
     User, Kind, Statements, Answers, Running
<1> QED BY <1>1, <1>2 DEF TypeInv

LEMMA RecheckType ==
  ASSUME TypeInv, NEW r \in Requests, Recheck(r)
  PROVE TypeInv'
<1>1. TypeOK'
  BY DEF TypeInv, TypeOK, Recheck, NoOpenRow, OpenRow, Locked, Goto, tables, Statements, Answers, Running
<1>2. LockInv'
  BY DEF TypeInv, TypeOK, LockInv, Recheck, NoOpenRow, OpenRow, Locked, Goto, tables, Open, HoldsSession,
     User, Kind, Statements, Answers, Running
<1> QED BY <1>1, <1>2 DEF TypeInv

LEMMA CommitType ==
  ASSUME TypeInv, NEW r \in Requests, Commit(r)
  PROVE TypeInv'
<1>1. /\ pc \in [Requests -> {"new"} \cup Statements \cup Answers]
      /\ pc' = [pc EXCEPT ![r] = "committed"]
      /\ body' = body /\ target' = target
  BY DEF TypeInv, TypeOK, Commit, Goto
<1>2. \A q \in Requests : pc'[q] # "committed" => q # r /\ pc[q] = pc'[q]
  BY <1>1
<1>3. CASE Kind(r) = "in"
  <2>1. TypeOK'
    BY <1>3, InputsAssumption, NoneAssumption
       DEF TypeInv, TypeOK, Commit, Goto, Token, Bodies, Statements, Running, Answers
  <2>2. LockInv'
    BY <1>1, <1>2, <1>3
       DEF TypeInv, TypeOK, LockInv, Commit, Open, HoldsSession, User, Kind
  <2> QED BY <2>1, <2>2 DEF TypeInv
<1>4. CASE Kind(r) # "in"
  <2>1. Kind(r) = "out"
    BY <1>4, InputsAssumption DEF TypeInv, TypeOK, Commit, Kind, Bodies
  <2>2. target[r] \in sessions /\ target[r] \in Requests
    BY <2>1 DEF TypeInv, TypeOK, LockInv, Commit, Open
  <2>3. Worked(at[target[r]], at[r]) \in Nat
    BY <2>2, WorkedNat DEF TypeInv, TypeOK
  <2>4. TypeOK'
    BY <1>4, <2>2, <2>3, InputsAssumption, NoneAssumption
       DEF TypeInv, TypeOK, Commit, Goto, Token, Bodies, Statements, Running, Answers
  <2>5. \A q \in Requests : pc'[q] = "commit" /\ Kind(q) = "out" => target[q] # target[r]
    BY <1>2, <2>1, <2>2 DEF TypeInv, LockInv, Commit, HoldsSession
  <2>6. LockInv'
    BY <1>1, <1>2, <1>4, <2>2, <2>5
       DEF TypeInv, TypeOK, LockInv, Commit, Open, HoldsSession, User, Kind
  <2> QED BY <2>4, <2>6 DEF TypeInv
<1> QED BY <1>3, <1>4

(* The inductive step of TypeInv, one action at a time. *)
LEMMA StepType == TypeInv /\ [Next]_vars => TypeInv'
<1> SUFFICES ASSUME TypeInv, [Next]_vars PROVE TypeInv' OBVIOUS
<1>1. ASSUME NEW r \in Requests, NEW b \in Inputs, NEW t \in Time, Receive(r, b, t)
      PROVE TypeInv'
  BY <1>1, ReceiveType
<1>2. ASSUME NEW r \in Requests, Serve(r) PROVE TypeInv'
  <2>1. CASE Reply(r)
    BY <2>1, EndType DEF Reply, TypeInv, TypeOK, Answers, Statements
  <2> QED BY <1>2, <2>1, EvidenceType, AssessType, BlockType, DedupeType, InsertDeviceType,
             SelectType, RecheckType, InsertSessionType, CommitType DEF Serve
<1>3. ASSUME NEW r \in Requests, Fail(r) PROVE TypeInv'
  BY <1>3, EndType DEF Fail, Refuse, Abort, LoseAnswer, TypeInv, TypeOK, Answers,
                       Statements, Running
<1>4. CASE Tick
  <2>1. TypeOK'
    BY <1>4, ClockIsTime DEF TypeInv, TypeOK, Tick, tables
  <2>2. LockInv'
    BY <1>4 DEF TypeInv, TypeOK, LockInv, Tick, tables, Open, HoldsSession, User, Kind
  <2> QED BY <2>1, <2>2 DEF TypeInv
<1>5. CASE UNCHANGED vars
  BY <1>5 DEF TypeInv, TypeOK, LockInv, vars, Open, HoldsSession, User, Kind
<1> QED BY <1>1, <1>2, <1>3, <1>4, <1>5 DEF Next, Idle

LEMMA TypeInvariant == Spec => []TypeInv
BY InitType, StepType, PTL DEF Spec

(* The variables of the handlers and of the tables keep their types: a     *)
(* punch is visible only after its commit, blocked attempts only as such.  *)
THEOREM TypeCorrect == Spec => []TypeOK
BY TypeInvariant, PTL DEF TypeInv

(***************************************************************************)
(* A finished shift is final.                                              *)
(***************************************************************************)
Frozen == \A s \in sessions :
            /\ s \in sessions'
            /\ clockOut[s] # None =>
                 clockOut'[s] = clockOut[s] /\ minutes'[s] = minutes[s]

LEMMA StepFrozen == TypeInv /\ [Next]_vars => Frozen
<1> SUFFICES ASSUME TypeInv, [Next]_vars PROVE Frozen OBVIOUS
<1>1. ASSUME NEW r \in Requests, Commit(r) PROVE Frozen
  <2>1. CASE Kind(r) = "in"
    BY <1>1, <2>1 DEF Frozen, Commit
  <2>2. CASE Kind(r) # "in"
    <3>1. target[r] \in Open(User(r))
      BY <1>1, <2>2, InputsAssumption
         DEF TypeInv, TypeOK, LockInv, Commit, Kind, Bodies
    <3> QED BY <1>1, <2>2, <3>1 DEF TypeInv, TypeOK, Frozen, Commit, Open
  <2> QED BY <2>1, <2>2
<1>2. CASE UNCHANGED <<sessions, clockOut, minutes>>
  BY <1>2 DEF Frozen
<1>3. CASE \E r \in Requests : Serve(r) /\ ~ Commit(r)
  BY <1>2, <1>3 DEF Serve, Evidence, Assess, Block, Dedupe, InsertDevice, SelectOpen,
     Recheck, NoOpenRow, OpenRow, AwaitRow, InsertSession, Reply, End, tables
<1>4. CASE (\E r \in Requests, b \in Inputs, t \in Time : Receive(r, b, t))
           \/ (\E r \in Requests : Fail(r)) \/ Tick \/ UNCHANGED vars
  BY <1>2, <1>4 DEF Receive, Fail, Refuse, Abort, LoseAnswer, End, Tick, tables, vars
<1> QED BY <1>1, <1>3, <1>4 DEF Next, Idle

(* No step of any request reopens a finished shift, ends it again, changes *)
(* its minutes or removes a session.                                       *)
THEOREM FinishedShiftsAreFrozen == Spec => FinishedShiftsFrozen
<1>1. TypeInv /\ [Next]_vars =>
      [\A s \in sessions :
         /\ s \in sessions'
         /\ clockOut[s] # None =>
              clockOut'[s] = clockOut[s] /\ minutes'[s] = minutes[s]]_vars
  BY StepFrozen DEF Frozen
<1> QED BY <1>1, TypeInvariant, PTL DEF Spec, FinishedShiftsFrozen

(***************************************************************************)
(* One open session per employee, and punches that pair up.                *)
(***************************************************************************)

(* A transaction that has inserted an open session is the only one to have *)
(* done so for its employee, who has no other open session meanwhile.      *)
PendingInv ==
  /\ \A r \in Requests : pc[r] = "commit" /\ Kind(r) = "in" => Open(User(r)) = {}
  /\ \A r1, r2 \in Requests :
       /\ pc[r1] = "commit" /\ Kind(r1) = "in"
       /\ pc[r2] = "commit" /\ Kind(r2) = "in"
       /\ User(r1) = User(r2)
       => r1 = r2

SessionInv == PendingInv /\ OneOpenSession /\ PunchesPairUp

(* A step that commits nothing and inserts no session keeps SessionInv. *)
LEMMA SessionFrame ==
  ASSUME TypeInv, SessionInv,
         UNCHANGED <<events, sessions, clockOut>>,
         \A q \in Requests : pc[q] # "new" => body'[q] = body[q],
         \A q \in Requests : pc'[q] = "commit" /\ Kind(q)' = "in" => pc[q] = "commit"
  PROVE SessionInv'
<1>1. \A e \in events : body'[e] = body[e] /\ e \in Requests
  BY DEF TypeInv, TypeOK
<1>2. \A s \in Requests : clockOut[s] \in events \cup {None}
  BY DEF TypeInv, TypeOK
<1>3. PendingInv'
  BY <1>1 DEF TypeInv, TypeOK, SessionInv, PendingInv, Open, User, Kind
<1>4. OneOpenSession'
  BY <1>1 DEF TypeInv, TypeOK, SessionInv, OneOpenSession, User
<1>5. PunchesPairUp'
  BY <1>1, <1>2 DEF TypeInv, TypeOK, SessionInv, PunchesPairUp, User, Kind
<1> QED BY <1>3, <1>4, <1>5 DEF SessionInv

LEMMA InsertSessionPending ==
  ASSUME TypeInv, SessionInv, NEW r \in Requests, InsertSession(r)
  PROVE SessionInv'
<1>1. /\ UNCHANGED <<events, sessions, clockOut, body>>
      /\ pc' = [pc EXCEPT ![r] = IF Open(User(r)) = {} THEN "commit" ELSE "error"]
  BY DEF InsertSession, Goto, tables
<1>2. PendingInv'
  BY <1>1 DEF TypeInv, TypeOK, InsertSession, InsertedOpen, SessionInv, PendingInv,
              Open, User, Kind
<1>3. OneOpenSession' /\ PunchesPairUp'
  BY <1>1 DEF SessionInv, OneOpenSession, PunchesPairUp, User, Kind
<1> QED BY <1>2, <1>3 DEF SessionInv

LEMMA CommitInPairs ==
  ASSUME TypeInv, SessionInv, NEW r \in Requests, Commit(r), Kind(r) = "in"
  PROVE SessionInv'
<1>1. /\ pc \in [Requests -> {"new"} \cup Statements \cup Answers]
      /\ pc' = [pc EXCEPT ![r] = "committed"] /\ pc[r] = "commit"
      /\ UNCHANGED <<body, clockOut>>
      /\ events' = events \cup {r} /\ sessions' = sessions \cup {r}
      /\ Open(User(r)) = {} /\ r \notin events
  BY DEF TypeInv, TypeOK, SessionInv, PendingInv, Commit, Goto
<1>2. PendingInv'
  BY <1>1 DEF TypeInv, TypeOK, SessionInv, PendingInv, Open, User, Kind
<1>3. OneOpenSession'
  BY <1>1 DEF SessionInv, OneOpenSession, Open, User
<1>4. PunchesPairUp'
  BY <1>1 DEF SessionInv, PunchesPairUp, User, Kind
<1> QED BY <1>2, <1>3, <1>4 DEF SessionInv

LEMMA CommitOutPairs ==
  ASSUME TypeInv, SessionInv, NEW r \in Requests, Commit(r), Kind(r) # "in"
  PROVE SessionInv'
<1>1. Kind(r) = "out"
  BY InputsAssumption DEF TypeInv, TypeOK, Commit, Kind, Bodies
<1>2. /\ pc \in [Requests -> {"new"} \cup Statements \cup Answers]
      /\ pc' = [pc EXCEPT ![r] = "committed"] /\ pc[r] = "commit"
      /\ UNCHANGED <<body, sessions>>
      /\ events' = events \cup {r}
      /\ clockOut' = [clockOut EXCEPT ![target[r]] = r]
      /\ target[r] \in Open(User(r)) /\ r \notin events
  BY <1>1 DEF TypeInv, TypeOK, LockInv, Commit, Goto
<1>3. /\ target[r] \in sessions /\ target[r] \in Requests
      /\ clockOut[target[r]] = None /\ User(target[r]) = User(r)
      /\ clockOut \in [Requests -> events \cup {None}] /\ r # None
  BY <1>2, NoneAssumption DEF TypeInv, TypeOK, Open
<1>4. PendingInv'
  BY <1>2, <1>3 DEF SessionInv, PendingInv, Open, User, Kind
<1>5. OneOpenSession'
  BY <1>2, <1>3 DEF TypeInv, TypeOK, SessionInv, OneOpenSession, User
<1>6. PunchesPairUp'
  <2>1. \A e \in events' : IF Kind(e)' = "in" THEN e \in sessions'
          ELSE \E s \in sessions' : clockOut'[s] = e /\ User(s)' = User(e)'
    <3>1. \A e \in events : Kind(e) = "in" => e \in sessions
      BY DEF SessionInv, PunchesPairUp
    <3>2. ASSUME NEW e \in events, Kind(e) # "in"
          PROVE \E s \in sessions : clockOut'[s] = e /\ User(s) = User(e)
      BY <1>2, <1>3, <3>2, NoneAssumption DEF TypeInv, TypeOK, SessionInv, PunchesPairUp
    <3> QED BY <1>1, <1>2, <1>3, <3>1, <3>2 DEF User, Kind
  <2>2. \A s \in sessions' : Kind(s)' = "in"
    BY <1>2 DEF SessionInv, PunchesPairUp, Kind
  <2>3. \A s \in Requests : clockOut'[s] # None =>
          /\ s \in sessions'
          /\ Kind(clockOut[s])' = "out" /\ User(clockOut[s])' = User(s)'
          /\ \A s2 \in Requests : clockOut'[s2] = clockOut'[s] => s2 = s
    BY <1>1, <1>2, <1>3 DEF SessionInv, PunchesPairUp, User, Kind
  <2> QED BY <2>1, <2>2, <2>3 DEF PunchesPairUp
<1> QED BY <1>4, <1>5, <1>6 DEF SessionInv

LEMMA StepSession == TypeInv /\ SessionInv /\ [Next]_vars => SessionInv'
<1> SUFFICES ASSUME TypeInv, SessionInv, [Next]_vars PROVE SessionInv' OBVIOUS
<1>1. ASSUME NEW r \in Requests, NEW b \in Inputs, NEW t \in Time, Receive(r, b, t)
      PROVE SessionInv'
  BY <1>1, SessionFrame DEF Receive, Goto, tables, TypeInv, TypeOK
<1>2. ASSUME NEW r \in Requests, Serve(r) PROVE SessionInv'
  <2>1. CASE Evidence(r) \/ Assess(r) \/ Block(r) \/ Dedupe(r) \/ InsertDevice(r) \/ Reply(r)
    BY <2>1, SessionFrame DEF Evidence, Assess, Block, Dedupe, InsertDevice, Reply, End,
                              Goto, tables, TypeInv, TypeOK
  <2>2. CASE SelectOpen(r) \/ Recheck(r)
    BY <2>2, SessionFrame DEF SelectOpen, Recheck, NoOpenRow, OpenRow, AwaitRow,
                              Goto, tables, TypeInv, TypeOK, Kind
  <2>3. CASE InsertSession(r) \/ Commit(r)
    BY <2>3, InsertSessionPending, CommitInPairs, CommitOutPairs
  <2> QED BY <1>2, <2>1, <2>2, <2>3 DEF Serve
<1>3. ASSUME NEW r \in Requests, Fail(r) PROVE SessionInv'
  BY <1>3, SessionFrame DEF Fail, Refuse, Abort, LoseAnswer, End, Goto, tables, TypeInv, TypeOK
<1>4. CASE Tick \/ UNCHANGED vars
  BY <1>4, SessionFrame DEF Tick, tables, vars
<1> QED BY <1>1, <1>2, <1>3, <1>4 DEF Next, Idle

LEMMA SessionInvariant == Spec => [](TypeInv /\ SessionInv)
<1>1. Init => SessionInv
  BY NoneAssumption DEF Init, SessionInv, PendingInv, OneOpenSession, PunchesPairUp
<1> QED BY <1>1, InitType, StepType, StepSession, PTL DEF Spec

(* An employee never has two open sessions. *)
THEOREM OneOpenSessionHolds == Spec => []OneOpenSession
BY SessionInvariant, PTL DEF SessionInv

(* Every recorded punch opens or ends exactly one session of its employee. *)
THEOREM PunchesPairUpHolds == Spec => []PunchesPairUp
BY SessionInvariant, PTL DEF SessionInv

(***************************************************************************)
(* Device events are punched once.                                         *)
(***************************************************************************)
Inserting == {"select", "wait", "insert", "commit"}

(* A pending device event is neither recorded nor pending twice, and the   *)
(* mobile handler carries no external id.                                  *)
DeviceInv ==
  /\ \A r \in Requests : pc[r] \in {"evidence", "assess", "block"} => Ext(r) = None
  /\ \A r \in Requests : pc[r] \in Inserting /\ Ext(r) # None =>
       \A e \in events : Ext(e) # Ext(r)
  /\ \A r1, r2 \in Requests :
       /\ pc[r1] \in Inserting /\ pc[r2] \in Inserting
       /\ Ext(r1) # None /\ Ext(r1) = Ext(r2)
       => r1 = r2
  /\ DeviceIdempotent

(* A step that commits nothing keeps DeviceInv if no request becomes       *)
(* pending by it that is not a mobile one.                                 *)
LEMMA DeviceFrame ==
  ASSUME TypeInv, DeviceInv, events' = events,
         \A q \in Requests : pc[q] # "new" => body'[q] = body[q],
         \A q \in Requests : pc'[q] \in Inserting =>
            pc[q] \in Inserting \cup {"assess"},
         \A q \in Requests : pc'[q] \in {"evidence", "assess", "block"} =>
            pc[q] \in {"evidence", "assess", "block"} \/ Ext(q)' = None,
         \A q \in Requests : pc'[q] = "duplicate" =>
            pc[q] = "duplicate" \/ \E e \in events : Ext(e) = Ext(q)',
         \A q \in Requests : pc[q] = "new" => pc'[q] # "duplicate"
  PROVE DeviceInv'
<1>1. \A e \in events : Ext(e)' = Ext(e) /\ e \in Requests
  BY DEF TypeInv, TypeOK, Ext
<1>2. \A q \in Requests : pc[q] # "new" => Ext(q)' = Ext(q)
  BY DEF Ext
<1>3. \A q \in Requests : pc'[q] \in Inserting /\ Ext(q)' # None =>
        pc[q] \in Inserting /\ Ext(q)' = Ext(q)
  BY <1>2 DEF DeviceInv, Inserting
<1>4. DeviceIdempotent'
  BY <1>1, <1>2 DEF DeviceInv, DeviceIdempotent
<1>5. \A r \in Requests : pc'[r] \in {"evidence", "assess", "block"} => Ext(r)' = None
  BY <1>2 DEF DeviceInv
<1> QED BY <1>1, <1>3, <1>4, <1>5 DEF DeviceInv

LEMMA StepDevice == TypeInv /\ DeviceInv /\ [Next]_vars => DeviceInv'
<1> SUFFICES ASSUME TypeInv, DeviceInv, [Next]_vars PROVE DeviceInv' OBVIOUS
<1>1. ASSUME NEW r \in Requests, NEW b \in Inputs, NEW t \in Time, Receive(r, b, t)
      PROVE DeviceInv'
  <2>1. b.route # "device" => b.ext = None
    BY InputsAssumption DEF Bodies
  <2>2. /\ body' = [body EXCEPT ![r] = b] /\ events' = events /\ pc[r] = "new"
        /\ pc' = [pc EXCEPT ![r] = IF b.route # "device" THEN "evidence"
                                   ELSE IF b.ext = None THEN "insdev" ELSE "dedupe"]
    BY <1>1 DEF Receive, Goto, tables
  <2> QED BY <2>1, <2>2, DeviceFrame DEF TypeInv, TypeOK, Inserting, Ext
<1>2. ASSUME NEW r \in Requests, Serve(r) PROVE DeviceInv'
  <2>1. CASE Evidence(r) \/ Assess(r) \/ Block(r) \/ Reply(r)
    BY <2>1, DeviceFrame DEF Evidence, Assess, Block, Reply, End, Goto, tables, TypeInv, TypeOK,
                             Inserting
  <2>2. CASE SelectOpen(r) \/ Recheck(r) \/ InsertSession(r)
    BY <2>2, DeviceFrame DEF SelectOpen, Recheck, InsertSession, NoOpenRow, OpenRow, AwaitRow,
                             Goto, tables, TypeInv, TypeOK, Inserting
  <2>3. CASE Dedupe(r)
    BY <2>3, DeviceFrame DEF Dedupe, Goto, tables, TypeInv, TypeOK, Inserting, Ext
  <2>4. CASE InsertDevice(r)
    BY <2>4 DEF InsertDevice, InsertedDevice, Goto, tables, TypeInv, TypeOK, Inserting, Ext,
                DeviceInv, DeviceIdempotent
  <2>5. CASE Commit(r)
    <3>1. /\ pc \in [Requests -> {"new"} \cup Statements \cup Answers]
          /\ pc' = [pc EXCEPT ![r] = "committed"] /\ pc[r] = "commit"
          /\ events' = events \cup {r} /\ body' = body
      BY <2>5 DEF Commit, Goto, TypeInv, TypeOK
    <3> QED BY <3>1 DEF DeviceInv, DeviceIdempotent, Inserting, Ext
  <2> QED BY <1>2, <2>1, <2>2, <2>3, <2>4, <2>5 DEF Serve
<1>3. ASSUME NEW r \in Requests, Fail(r) PROVE DeviceInv'
  BY <1>3, DeviceFrame DEF Fail, Refuse, Abort, LoseAnswer, End, Goto, tables, TypeInv, TypeOK,
                           Inserting
<1>4. CASE Tick \/ UNCHANGED vars
  BY <1>4, DeviceFrame DEF Tick, tables, vars, Ext, DeviceInv, DeviceIdempotent
<1> QED BY <1>1, <1>2, <1>3, <1>4 DEF Next, Idle

(* A device event with an external id is recorded at most once, and        *)
(* duplicate:true is answered only for one that is recorded.               *)
THEOREM DeviceIdempotentHolds == Spec => []DeviceIdempotent
<1>1. Init => DeviceInv
  BY DEF Init, DeviceInv, DeviceIdempotent, Inserting
<1> QED BY <1>1, InitType, StepType, StepDevice, PTL DEF Spec, DeviceInv

(***************************************************************************)
(* What it would take for a resent event to be answered duplicate:true.    *)
(***************************************************************************)

(* No copy of an event passes the SELECT while another one is on its way   *)
(* from there to its commit.                                               *)
ResentAlone ==
  \A r \in Requests : pc[r] = "dedupe" /\ pc'[r] = "insdev" =>
    \A q \in Requests \ {r} : pc[q] \in Inserting \cup {"insdev"} => Ext(q) # Ext(r)

(* A request that passed the SELECT is still the only copy of its event.   *)
ResendInv ==
  \A r \in Requests : pc[r] = "insdev" /\ Ext(r) # None =>
    /\ \A e \in events : Ext(e) # Ext(r)
    /\ \A q \in Requests \ {r} : pc[q] \in Inserting \cup {"insdev"} => Ext(q) # Ext(r)

(* A step that commits nothing keeps ResendInv if nobody passes the SELECT.*)
LEMMA ResendFrame ==
  ASSUME TypeInv, DeviceInv, ResendInv, events' = events,
         \A q \in Requests : pc[q] # "new" => body'[q] = body[q],
         \A q \in Requests : pc'[q] \in Inserting => pc[q] \in Inserting \cup {"insdev", "assess"},
         \A q \in Requests : pc'[q] = "insdev" => pc[q] = "insdev" \/ Ext(q)' = None
  PROVE ResendInv'
<1>1. \A e \in events : Ext(e)' = Ext(e)
  BY DEF TypeInv, TypeOK, Ext
<1>2. \A q \in Requests : pc[q] # "new" => Ext(q)' = Ext(q)
  BY DEF Ext
<1>3. \A q \in Requests : pc'[q] \in Inserting \cup {"insdev"} /\ Ext(q)' # None =>
        pc[q] \in Inserting \cup {"insdev"} /\ Ext(q)' = Ext(q)
  BY <1>2 DEF DeviceInv, Inserting
<1>4. ASSUME NEW r \in Requests, pc'[r] = "insdev", Ext(r)' # None
      PROVE  /\ \A e \in events : Ext(e)' # Ext(r)'
             /\ \A q \in Requests \ {r} : pc'[q] \in Inserting \cup {"insdev"} => Ext(q)' # Ext(r)'
  <2>1. pc[r] = "insdev" /\ Ext(r)' = Ext(r)
    BY <1>2, <1>4
  <2> QED BY <1>1, <1>3, <1>4, <2>1 DEF ResendInv
<1> QED BY <1>4 DEF ResendInv

LEMMA StepResend ==
  ASSUME TypeInv, DeviceInv, ResendInv, FaultFreeNext, ResentAlone
  PROVE  ResendInv'
<1>1. ASSUME NEW r \in Requests, NEW b \in Inputs, NEW t \in Time, Receive(r, b, t)
      PROVE  ResendInv'
  <2>1. /\ body' = [body EXCEPT ![r] = b] /\ events' = events /\ pc[r] = "new"
        /\ pc' = [pc EXCEPT ![r] = IF b.route # "device" THEN "evidence"
                                   ELSE IF b.ext = None THEN "insdev" ELSE "dedupe"]
    BY <1>1 DEF Receive, Goto, tables
  <2> QED BY <2>1, ResendFrame DEF TypeInv, TypeOK, Inserting, Ext
<1>2. ASSUME NEW r \in Requests, Serve(r) PROVE ResendInv'
  <2>1. CASE Evidence(r) \/ Assess(r) \/ Block(r) \/ Reply(r)
    BY <2>1, ResendFrame DEF Evidence, Assess, Block, Reply, End, Goto, tables, TypeInv, TypeOK,
                             Inserting
  <2>2. CASE SelectOpen(r) \/ Recheck(r) \/ InsertSession(r) \/ InsertDevice(r)
    BY <2>2, ResendFrame DEF SelectOpen, Recheck, InsertSession, InsertDevice, NoOpenRow, OpenRow,
                             AwaitRow, Goto, tables, TypeInv, TypeOK, Inserting
  <2>3. CASE Dedupe(r)
    <3>1. /\ pc[r] = "dedupe" /\ UNCHANGED <<events, body>>
          /\ pc' = [pc EXCEPT ![r] = IF \E e \in events : Ext(e) = Ext(r)
                                       THEN "duplicate" ELSE "insdev"]
          /\ pc \in [Requests -> {"new"} \cup Statements \cup Answers]
      BY <2>3 DEF Dedupe, Goto, tables, TypeInv, TypeOK
    <3>2. CASE \E e \in events : Ext(e) = Ext(r)
      BY <3>1, <3>2, ResendFrame DEF Inserting
    <3>3. CASE ~ \E e \in events : Ext(e) = Ext(r)
      <4>1. /\ \A q \in Requests \ {r} : pc'[q] = pc[q]
            /\ \A q : Ext(q)' = Ext(q)
            /\ pc'[r] = "insdev" /\ pc[r] = "dedupe"
        BY <3>1, <3>3 DEF Ext
      <4>2. \A q \in Requests \ {r} : pc[q] \in Inserting \cup {"insdev"} => Ext(q) # Ext(r)
        BY <4>1 DEF ResentAlone
      <4> QED BY <3>1, <3>3, <4>1, <4>2 DEF ResendInv
    <3> QED BY <3>2, <3>3
  <2>4. CASE Commit(r)
    <3>1. /\ pc[r] = "commit" /\ body' = body /\ events' = events \cup {r}
          /\ pc' = [pc EXCEPT ![r] = "committed"]
          /\ pc \in [Requests -> {"new"} \cup Statements \cup Answers]
      BY <2>4 DEF Commit, Goto, TypeInv, TypeOK
    <3> QED BY <3>1 DEF ResendInv, Inserting, Ext
  <2> QED BY <1>2, <2>1, <2>2, <2>3, <2>4 DEF Serve
<1>3. CASE Tick \/ UNCHANGED vars
  BY <1>3 DEF Tick, tables, vars, ResendInv, Ext
<1> QED BY <1>1, <1>2, <1>3 DEF FaultFreeNext, Idle

(* The one cause of a resent event answered 500 while it is recorded: two  *)
(* copies past the SELECT at a time.  Otherwise, in a handler of which no  *)
(* statement fails for a reason of its own, no answer 500 is given about   *)
(* an event that is recorded.                                              *)
THEOREM NoErrorIfResentAlone ==
  FaultFreeSpec /\ [][ResentAlone]_vars =>
    [][\A r \in Requests : pc[r] # "error" /\ pc'[r] = "error" /\ Ext(r) # None =>
         \A e \in events : Ext(e) # Ext(r)]_vars
<1> DEFINE Told == \A r \in Requests : pc[r] # "error" /\ pc'[r] = "error" /\ Ext(r) # None =>
                     \A e \in events : Ext(e) # Ext(r)
<1>1. Init => DeviceInv /\ ResendInv
  BY DEF Init, DeviceInv, DeviceIdempotent, ResendInv, Inserting
<1>2. [FaultFreeNext]_vars => [Next]_vars
  BY DEF FaultFreeNext, Next
<1>3. ASSUME TypeInv, DeviceInv, ResendInv, [FaultFreeNext]_vars, [ResentAlone]_vars
      PROVE  ResendInv'
  <2>1. CASE UNCHANGED vars
    BY <1>3, <2>1 DEF vars, ResendInv, Ext
  <2> QED BY <1>3, <2>1, StepResend
<1>4. ASSUME TypeInv, DeviceInv, ResendInv, [FaultFreeNext]_vars
      PROVE  [Told]_vars
  <2>1. ASSUME NEW r \in Requests, NEW b \in Inputs, NEW t \in Time, Receive(r, b, t)
        PROVE  Told
    BY <1>4, <2>1 DEF Receive, Goto, TypeInv, TypeOK
  <2>2. ASSUME NEW r \in Requests, Serve(r) PROVE Told
    <3>1. CASE InsertDevice(r)
      BY <1>4, <3>1 DEF InsertDevice, Goto, TypeInv, TypeOK, ResendInv
    <3>2. CASE InsertSession(r)
      BY <1>4, <3>2 DEF InsertSession, Goto, TypeInv, TypeOK, DeviceInv, Inserting
    <3>3. CASE SelectOpen(r) \/ Recheck(r)
      BY <1>4, <3>3 DEF SelectOpen, Recheck, NoOpenRow, OpenRow, AwaitRow, Goto, TypeInv, TypeOK
    <3>4. CASE Evidence(r) \/ Assess(r) \/ Block(r) \/ Dedupe(r) \/ Commit(r) \/ Reply(r)
      BY <1>4, <3>4 DEF Evidence, Assess, Block, Dedupe, Commit, Reply, End, Goto, TypeInv, TypeOK
    <3> QED BY <2>2, <3>1, <3>2, <3>3, <3>4 DEF Serve
  <2>3. CASE Tick
    BY <2>3 DEF Tick
  <2> QED BY <1>4, <2>1, <2>2, <2>3 DEF FaultFreeNext, Idle
<1> HIDE DEF Told
<1>5. FaultFreeSpec /\ [][ResentAlone]_vars => [][Told]_vars
  BY <1>1, <1>2, <1>3, <1>4, InitType, StepType, StepDevice, PTL DEF FaultFreeSpec
<1> QED BY <1>5 DEF Told

(***************************************************************************)
(* Answers are truthful.                                                   *)
(***************************************************************************)
AnsweredInv == \A r \in Requests : pc[r] \in {"committed", "created"} => r \in events

LEMMA StepAnswered == TypeInv /\ AnsweredInv /\ [Next]_vars => AnsweredInv'
<1> SUFFICES ASSUME TypeInv, AnsweredInv, [Next]_vars PROVE AnsweredInv' OBVIOUS
<1>1. ASSUME NEW r \in Requests, NEW b \in Inputs, NEW t \in Time, Receive(r, b, t)
      PROVE AnsweredInv'
  BY <1>1 DEF Receive, Goto, tables, AnsweredInv, TypeInv, TypeOK
<1>2. ASSUME NEW r \in Requests, Serve(r) PROVE AnsweredInv'
  BY <1>2 DEF Serve, Evidence, Assess, Block, Dedupe, InsertDevice, SelectOpen, Recheck,
     NoOpenRow, OpenRow, AwaitRow, InsertSession, Commit, Reply, End, Goto, tables,
     AnsweredInv, TypeInv, TypeOK
<1>3. ASSUME NEW r \in Requests, Fail(r) PROVE AnsweredInv'
  BY <1>3 DEF Fail, Refuse, Abort, LoseAnswer, End, Goto, tables, AnsweredInv, TypeInv, TypeOK
<1>4. CASE Tick \/ UNCHANGED vars
  BY <1>4 DEF Tick, tables, vars, AnsweredInv
<1> QED BY <1>1, <1>2, <1>3, <1>4 DEF Next, Idle

(* 201 is answered only for a recorded punch; 403, 409, 400 and            *)
(* duplicate:true only for one that is not and never will be.              *)
THEOREM AnswersTruthfulHolds == Spec => []AnswersTruthful
<1>1. Init => AnsweredInv
  BY DEF Init, AnsweredInv
<1>2. TypeInv /\ AnsweredInv => AnswersTruthful
  BY DEF TypeInv, TypeOK, AnsweredInv, AnswersTruthful
<1> QED BY <1>1, <1>2, InitType, StepType, StepAnswered, PTL DEF Spec

(***************************************************************************)
(* Reuse of a QR token within the window is noticed.                       *)
(***************************************************************************)
Assessed == {"block", "select", "wait", "insert", "commit"}

(* The lock of a token is held by one transaction, and as long as one that *)
(* was assessed holds it, its signals are up to date with the table.       *)
TokenInv ==
  /\ \A r \in Requests : pc[r] \in {"dedupe", "insdev"} => Token(r) = None
  /\ \A r1, r2 \in Requests :
       /\ pc[r1] \in Running /\ pc[r2] \in Running
       /\ Token(r1) # None /\ Token(r1) = Token(r2)
       => r1 = r2
  /\ \A r \in Requests, e \in events :
       /\ pc[r] \in Assessed /\ Token(r) # None
       /\ Token(e) = Token(r) /\ User(e) = User(r) /\ at[e] >= at[r] - Window
       => "replay" \in signals[r]
  /\ ReplayNoticed

(* A step that neither commits, nor assesses, nor takes a token's lock. *)
LEMMA TokenFrame ==
  ASSUME TypeInv, TokenInv, UNCHANGED <<events, signals>>,
         \A q \in Requests : pc[q] # "new" => body'[q] = body[q] /\ at'[q] = at[q],
         \A q \in Requests : pc'[q] \in Running /\ Token(q)' # None => pc[q] \in Running,
         \A q \in Requests : pc'[q] \in Assessed /\ Token(q)' # None => pc[q] \in Assessed,
         \A q \in Requests : pc'[q] \in {"dedupe", "insdev"} =>
            pc[q] \in {"dedupe", "insdev"} \/ Token(q)' = None
  PROVE TokenInv'
<1>1. \A e \in events : body'[e] = body[e] /\ at'[e] = at[e] /\ e \in Requests
  BY DEF TypeInv, TypeOK
<1>2. \A q \in Requests : pc[q] # "new" => Token(q)' = Token(q) /\ User(q)' = User(q)
  BY DEF Token, User
<1>3. \A q \in Requests : pc[q] \in Running \cup Assessed => pc[q] # "new"
  BY DEF Running, Assessed
<1>4. ReplayNoticed'
  BY <1>1 DEF TokenInv, ReplayNoticed, Token, User
<1>5. \A r \in Requests, e \in events' :
        /\ pc'[r] \in Assessed /\ Token(r)' # None
        /\ Token(e)' = Token(r)' /\ User(e)' = User(r)' /\ at'[e] >= at'[r] - Window
        => "replay" \in signals'[r]
  BY <1>1, <1>2, <1>3 DEF TokenInv, Token, User
<1>6. \A r1, r2 \in Requests :
        /\ pc'[r1] \in Running /\ pc'[r2] \in Running
        /\ Token(r1)' # None /\ Token(r1)' = Token(r2)'
        => r1 = r2
  BY <1>2, <1>3 DEF TokenInv
<1>7. \A r \in Requests : pc'[r] \in {"dedupe", "insdev"} => Token(r)' = None
  BY <1>2 DEF TokenInv
<1> QED BY <1>4, <1>5, <1>6, <1>7 DEF TokenInv

LEMMA AssessToken ==
  ASSUME TypeInv, TokenInv, NEW r \in Requests, Assess(r)
  PROVE TokenInv'
<1>1. /\ pc[r] = "assess" /\ pc'[r] \in {"block", "select"}
      /\ \A q \in Requests : q # r => pc'[q] = pc[q] /\ at'[q] = at[q] /\ signals'[q] = signals[q]
      /\ UNCHANGED <<events, body>>
      /\ at'[r] = clock /\ signals'[r] = Signals(r, clock)
  BY DEF TypeInv, TypeOK, Assess, Goto, tables
<1>2. \A e \in events : e \in Requests /\ e # r
  BY <1>1 DEF TypeInv, TypeOK
<1>3. \A e \in events :
        /\ Token(r) # None /\ Token(e) = Token(r) /\ User(e) = User(r)
        /\ at[e] >= clock - Window
        => "replay" \in Signals(r, clock)
  BY DEF Signals, Replayed, Recent
<1>4. ReplayNoticed'
  BY <1>1, <1>2 DEF TokenInv, ReplayNoticed, Token, User
<1> QED BY <1>1, <1>2, <1>3, <1>4 DEF TokenInv, Running, Assessed, Token, User

LEMMA CommitToken ==
  ASSUME TypeInv, TokenInv, NEW r \in Requests, Commit(r)
  PROVE TokenInv'
<1>1. /\ pc[r] = "commit" /\ pc'[r] = "committed"
      /\ \A q \in Requests : q # r => pc'[q] = pc[q]
      /\ UNCHANGED <<at, signals, body>>
      /\ events' = events \cup {r} /\ r \notin events
  BY DEF TypeInv, TypeOK, Commit, Goto
<1>2. \A e \in events :
        /\ User(e) = User(r) /\ Token(e) = Token(r) /\ Token(e) # None
        /\ at[e] - at[r] \in -Window .. Window
        => "replay" \in signals[r]
  <2> SUFFICES ASSUME NEW e \in events, User(e) = User(r), Token(e) = Token(r), Token(e) # None,
                      at[e] - at[r] \in -Window .. Window
               PROVE "replay" \in signals[r] OBVIOUS
  <2>1. at[e] \in Int /\ at[r] \in Int
    BY TimeAssumption DEF TypeInv, TypeOK, Time
  <2>2. at[e] >= at[r] - Window
    BY <2>1, TimeAssumption
  <2> QED BY <1>1, <2>2 DEF TokenInv, Assessed
<1>3. \A e \in events :
        at[r] - at[e] \in -Window .. Window => at[e] - at[r] \in -Window .. Window
  <2> SUFFICES ASSUME NEW e \in events, at[r] - at[e] \in -Window .. Window
               PROVE at[e] - at[r] \in -Window .. Window OBVIOUS
  <2>1. at[e] \in Int /\ at[r] \in Int
    BY TimeAssumption DEF TypeInv, TypeOK, Time
  <2> QED BY <2>1, TimeAssumption
<1>4. ReplayNoticed'
  BY <1>1, <1>2, <1>3 DEF TokenInv, ReplayNoticed, Token, User
<1>5. \A q \in Requests : pc'[q] \in Running => q # r /\ pc[q] \in Running
  BY <1>1 DEF Running
<1>6. \A q \in Requests : pc'[q] \in Assessed =>
        q # r /\ pc[q] \in Assessed /\ (Token(q) # None => Token(r) # Token(q))
  BY <1>1 DEF TokenInv, Running, Assessed
<1> QED BY <1>1, <1>4, <1>5, <1>6 DEF TokenInv, Token, User

LEMMA StepToken == TypeInv /\ TokenInv /\ [Next]_vars => TokenInv'
<1> SUFFICES ASSUME TypeInv, TokenInv, [Next]_vars PROVE TokenInv' OBVIOUS
<1>1. ASSUME NEW r \in Requests, NEW b \in Inputs, NEW t \in Time, Receive(r, b, t)
      PROVE TokenInv'
  <2>1. b.route = "device" => b.token = None
    BY InputsAssumption DEF Bodies
  <2>2. /\ body' = [body EXCEPT ![r] = b] /\ UNCHANGED <<events, signals>> /\ pc[r] = "new"
        /\ pc' = [pc EXCEPT ![r] = IF b.route # "device" THEN "evidence"
                                   ELSE IF b.ext = None THEN "insdev" ELSE "dedupe"]
        /\ at' = at \/ at' = [at EXCEPT ![r] = t]
    BY <1>1 DEF Receive, Goto, tables
  <2> QED BY <2>1, <2>2, TokenFrame DEF TypeInv, TypeOK, Running, Assessed, Token
<1>2. ASSUME NEW r \in Requests, Serve(r) PROVE TokenInv'
  <2>1. CASE Block(r) \/ Dedupe(r) \/ Reply(r)
    BY <2>1, TokenFrame DEF Block, Dedupe, Reply, End, Goto, tables, TypeInv, TypeOK,
                            Running, Assessed
  <2>2. CASE SelectOpen(r) \/ Recheck(r) \/ InsertSession(r)
    BY <2>2, TokenFrame DEF SelectOpen, Recheck, InsertSession, NoOpenRow, OpenRow, AwaitRow,
                            Goto, tables, TypeInv, TypeOK, Running, Assessed
  <2>3. CASE InsertDevice(r)
    <3>1. Token(r) = None /\ Token(r)' = None
      BY <2>3 DEF InsertDevice, TokenInv, Token
    <3> QED BY <2>3, <3>1, TokenFrame DEF InsertDevice, Goto, tables, TypeInv, TypeOK,
                                          Running, Assessed
  <2>4. CASE Evidence(r)
    <3>1. /\ pc[r] = "evidence" /\ pc' = [pc EXCEPT ![r] = "assess"]
          /\ UNCHANGED <<events, signals, body, at>>
          /\ \A q \in Requests : pc[q] \in Running /\ Token(r) # None => Token(q) # Token(r)
      BY <2>4 DEF Evidence, Goto, tables, HoldsToken
    <3> QED BY <3>1 DEF TypeInv, TypeOK, TokenInv, ReplayNoticed, Running, Assessed, Token, User
  <2> QED BY <1>2, <2>1, <2>2, <2>3, <2>4, AssessToken, CommitToken DEF Serve
<1>3. ASSUME NEW r \in Requests, Fail(r) PROVE TokenInv'
  BY <1>3, TokenFrame DEF Fail, Refuse, Abort, LoseAnswer, End, Goto, tables, TypeInv, TypeOK,
                          Running, Assessed
<1>4. CASE Tick \/ UNCHANGED vars
  BY <1>4, TokenFrame DEF Tick, tables, vars, Token, TokenInv
<1> QED BY <1>1, <1>2, <1>3, <1>4 DEF Next, Idle

(* Of two punches of an employee with one QR token within the window at    *)
(* least one carries the replay signal, on every interleaving.             *)
THEOREM ReplayNoticedHolds == Spec => []ReplayNoticed
<1>1. Init => TokenInv
  BY DEF Init, TokenInv, ReplayNoticed, Assessed, Running
<1> QED BY <1>1, InitType, StepType, StepToken, PTL DEF Spec, TokenInv

(***************************************************************************)
(* Requests never wait for each other in a cycle.                          *)
(***************************************************************************)

(* The next statement of r waits for what q has locked or inserted. *)
WaitsFor(r, q) ==
  \/ pc[r] = "evidence" /\ Token(r) # None /\ HoldsToken(q, Token(r))
  \/ pc[r] = "insdev" /\ Ext(r) # None /\ InsertedDevice(q, Ext(r))
  \/ pc[r] = "wait" /\ HoldsSession(q, target[r])
  \/ /\ pc[r] = "insert"
     /\ InsertedOpen(q, User(r)) \/ \E s \in Open(User(r)) : HoldsSession(q, s)

(* How many of its locks r may hold: the token or the device event, then   *)
(* the session.                                                            *)
Level(r) == IF pc[r] = "commit" THEN 2 ELSE IF pc[r] \in Running THEN 1 ELSE 0

(* Whoever is waited for is further on, so no requests wait in a cycle.    *)
(* Both handlers lock the token or device event before the session.        *)
THEOREM NoWaitCycle == Spec => [](\A r, q \in Requests : WaitsFor(r, q) => Level(r) < Level(q))
<1>1. \A r, q \in Requests : WaitsFor(r, q) => Level(r) < Level(q)
  BY DEF WaitsFor, Level, Running, HoldsToken, InsertedDevice, HoldsSession, InsertedOpen
<1> QED BY <1>1, PTL

(* A running handler that waits for nobody. *)
Unhindered(r) == pc[r] \in Statements /\ \A q \in Requests : ~ WaitsFor(r, q)

(* The safety half of EveryRequestAnswered: as long as a handler is        *)
(* running, some running handler waits for nobody.                         *)
THEOREM SomeoneGoesOn ==
  Spec => []((\E r \in Requests : pc[r] \in Statements) => \E r \in Requests : Unhindered(r))
<1>1. (\E r \in Requests : pc[r] \in Statements) => \E r \in Requests : Unhindered(r)
  <2> SUFFICES ASSUME NEW r \in Requests, pc[r] \in Statements
               PROVE  \E q \in Requests : Unhindered(q)
    OBVIOUS
  <2>1. CASE \E q \in Requests : pc[q] = "commit"
    BY <2>1 DEF Unhindered, WaitsFor, Statements, Running
  <2>2. CASE /\ \A q \in Requests : pc[q] # "commit"
             /\ \E q \in Requests : pc[q] \in Running
    BY <2>2 DEF Unhindered, WaitsFor, Statements, Running, HoldsSession, InsertedOpen
  <2>3. CASE \A q \in Requests : pc[q] \notin Running
    BY <2>3 DEF Unhindered, WaitsFor, Running, HoldsToken, InsertedDevice, HoldsSession,
                InsertedOpen
  <2> QED BY <2>1, <2>2, <2>3
<1> QED BY <1>1, PTL

(***************************************************************************)
(* Scans are counted.                                                      *)
(***************************************************************************)
Scanned(t) == {r \in events \cup blocked : Token(r) = t}

(* Only finitely many requests have been recorded or blocked. *)
ScanInv == IsFiniteSet(events \cup blocked) /\ ScansCounted

LEMMA ScanFrame ==
  ASSUME TypeInv, ScanInv, UNCHANGED <<events, blocked, scans>>,
         \A q \in Requests : pc[q] # "new" => body'[q] = body[q]
  PROVE  ScanInv'
<1>1. \A q \in events \cup blocked : Token(q)' = Token(q)
  BY DEF TypeInv, TypeOK, Token
<1>2. \A t : Scanned(t)' = Scanned(t)
  BY <1>1 DEF Scanned
<1>3. \A t \in Tokens : scans'[t] = Cardinality(Scanned(t)')
  BY <1>2 DEF ScanInv, ScansCounted, Scanned
<1> QED BY <1>3 DEF ScanInv, ScansCounted, Scanned

(* The commit of a punch or of a blocked attempt counts the scan it made. *)
LEMMA ScanCommit ==
  ASSUME TypeInv, ScanInv, NEW r \in Requests, pc[r] # "new", r \notin events \cup blocked,
         UNCHANGED body, events' \cup blocked' = (events \cup blocked) \cup {r},
         scans' = IF Token(r) = None THEN scans ELSE [scans EXCEPT ![Token(r)] = @ + 1]
  PROVE  ScanInv'
<1>1. \A q : Token(q)' = Token(q)
  BY DEF Token
<1>2. Token(r) \in Tokens \cup {None} /\ None \notin Tokens
  BY InputsAssumption, NoneAssumption DEF TypeInv, TypeOK, Token, Bodies
<1>3. IsFiniteSet(events' \cup blocked')
  BY FS_AddElement DEF ScanInv
<1>4. ASSUME NEW t \in Tokens
      PROVE  scans'[t] = Cardinality(Scanned(t)')
  <2>1. /\ IsFiniteSet(Scanned(t)) /\ r \notin Scanned(t)
        /\ scans[t] = Cardinality(Scanned(t)) /\ scans \in [Tokens -> Nat]
    <3>1. Scanned(t) \in SUBSET (events \cup blocked)
      BY DEF Scanned
    <3>2. IsFiniteSet(Scanned(t))
      BY <3>1, FS_Subset DEF ScanInv
    <3> QED BY <3>1, <3>2 DEF ScanInv, ScansCounted, Scanned, TypeInv, TypeOK
  <2>2. CASE Token(r) = t
    <3>1. Scanned(t)' = Scanned(t) \cup {r}
      BY <1>1, <2>2 DEF Scanned
    <3>2. Cardinality(Scanned(t) \cup {r}) = Cardinality(Scanned(t)) + 1
      BY <2>1, FS_AddElement
    <3>3. scans'[t] = scans[t] + 1
      BY <1>2, <2>1, <2>2
    <3> QED BY <2>1, <3>1, <3>2, <3>3
  <2>3. CASE Token(r) # t
    <3>1. Scanned(t)' = Scanned(t)
      BY <1>1, <2>3 DEF Scanned
    <3>2. scans'[t] = scans[t]
      BY <1>2, <2>1, <2>3
    <3> QED BY <2>1, <3>1, <3>2
  <2> QED BY <2>2, <2>3
<1> QED BY <1>3, <1>4 DEF ScanInv, ScansCounted, Scanned

LEMMA StepScan == TypeInv /\ ScanInv /\ [Next]_vars => ScanInv'
<1> SUFFICES ASSUME TypeInv, ScanInv, [Next]_vars PROVE ScanInv' OBVIOUS
<1>1. ASSUME NEW r \in Requests, Commit(r) PROVE ScanInv'
  <2>1. /\ pc[r] # "new" /\ r \notin events \cup blocked /\ UNCHANGED body
        /\ events' \cup blocked' = (events \cup blocked) \cup {r}
        /\ scans' = IF Token(r) = None THEN scans ELSE [scans EXCEPT ![Token(r)] = @ + 1]
    BY <1>1 DEF TypeInv, TypeOK, Commit
  <2> QED BY <2>1, ScanCommit
<1>2. ASSUME NEW r \in Requests, Block(r) PROVE ScanInv'
  <2>1. /\ pc[r] # "new" /\ r \notin events \cup blocked /\ UNCHANGED <<body, events>>
    BY <1>2 DEF TypeInv, TypeOK, Block
  <2>2. CASE blocked' = blocked \cup {r}
    <3>1. blocked' # blocked
      BY <2>1, <2>2
    <3>2. /\ events' \cup blocked' = (events \cup blocked) \cup {r}
          /\ scans' = IF Token(r) = None THEN scans ELSE [scans EXCEPT ![Token(r)] = @ + 1]
      BY <1>2, <2>1, <2>2, <3>1 DEF Block
    <3> QED BY <2>1, <3>2, ScanCommit
  <2>3. CASE UNCHANGED <<blocked, scans>>
    BY <2>1, <2>3, ScanFrame
  <2> QED BY <1>2, <2>2, <2>3 DEF Block
<1>3. CASE \E r \in Requests : Serve(r) /\ ~ Commit(r) /\ ~ Block(r)
  BY <1>3, ScanFrame DEF Serve, Evidence, Assess, Dedupe, InsertDevice, SelectOpen,
     Recheck, NoOpenRow, OpenRow, AwaitRow, InsertSession, Reply, End, tables
<1>4. CASE (\E r \in Requests, b \in Inputs, t \in Time : Receive(r, b, t))
           \/ (\E r \in Requests : Fail(r)) \/ Tick \/ UNCHANGED vars
  BY <1>4, ScanFrame DEF Receive, Fail, Refuse, Abort, LoseAnswer, End, Tick, tables, vars,
     TypeInv, TypeOK
<1> QED BY <1>1, <1>2, <1>3, <1>4 DEF Next, Idle

(* The counter of a token is the number of punches recorded and attempts   *)
(* blocked with it: a scan that was rolled back is not counted, and none   *)
(* is counted twice.                                                       *)
THEOREM ScansCountedHolds == Spec => []ScansCounted
<1>1. Init => ScanInv
  <2> SUFFICES ASSUME Init PROVE ScanInv OBVIOUS
  <2>1. events \cup blocked = {}
    BY DEF Init
  <2>2. \A t \in Tokens : Scanned(t) = {} /\ scans[t] = 0
    BY <2>1 DEF Init, Scanned
  <2>3. \A t \in Tokens : scans[t] = Cardinality(Scanned(t))
    BY <2>2, FS_EmptySet
  <2> QED BY <2>1, <2>3, FS_EmptySet DEF ScanInv, ScansCounted, Scanned
<1> QED BY <1>1, InitType, StepType, StepScan, PTL DEF Spec, ScanInv

(***************************************************************************)
(* Attendance implements ShiftLedger.                                      *)
(***************************************************************************)
Finished == {s \in sessions : clockOut[s] # None}

onShiftBar == [u \in Users |-> OnShift(u)]
shiftsBar == {[user |-> User(s), in |-> s, out |-> clockOut[s]] : s \in Finished}

LEMMA TheOnly == The({}) = None /\ \A s : The({s}) = s
BY DEF The

LEMMA SameTables ==
  ASSUME TypeInv, UNCHANGED <<sessions, clockOut>>,
         \A q \in Requests : pc[q] # "new" => body'[q] = body[q]
  PROVE onShiftBar' = onShiftBar /\ shiftsBar' = shiftsBar
<1>1. \A s \in sessions : User(s)' = User(s)
  BY DEF TypeInv, TypeOK, User
<1>2. \A u : Open(u)' = Open(u)
  BY <1>1 DEF Open
<1>3. onShiftBar' = onShiftBar
  BY <1>2 DEF onShiftBar, OnShift
<1>4. shiftsBar' = shiftsBar
  BY <1>1 DEF shiftsBar, Finished
<1> QED BY <1>3, <1>4

(* Punches in the ledger are committed events. *)
LEMMA SpentCommitted ==
  ASSUME TypeInv, SessionInv, NEW r \in Requests, r \notin events
  PROVE r \notin {onShiftBar[u] : u \in Users} \cup UNION {{s.in, s.out} : s \in shiftsBar}
<1>1. \A u \in Users : onShiftBar[u] \in events \cup {None}
  BY DEF onShiftBar, OnShift, The, Open, TypeInv, TypeOK
<1>2. \A s \in shiftsBar : s.in \in events /\ s.out \in events
  BY DEF shiftsBar, Finished, TypeInv, TypeOK
<1> QED BY <1>1, <1>2, NoneAssumption

LEMMA CommitInLedger ==
  ASSUME TypeInv, SessionInv, NEW r \in Requests, Commit(r), Kind(r) = "in"
  PROVE Ledger!ClockIn(User(r), r) /\ User(r) \in Users
<1>1. /\ pc[r] = "commit" /\ UNCHANGED <<body, clockOut>>
      /\ sessions' = sessions \cup {r}
      /\ Open(User(r)) = {} /\ r \notin events /\ r # None
      /\ clockOut[r] = None
  <2>1. r \notin sessions /\ r \notin events
    BY DEF TypeInv, TypeOK, Commit
  <2>2. clockOut[r] = None
    BY <2>1 DEF SessionInv, PunchesPairUp
  <2> QED BY <2>1, <2>2, NoneAssumption DEF SessionInv, PendingInv, Commit
<1>2. User(r) \in Users
  BY <1>1, InputsAssumption DEF TypeInv, TypeOK, Bodies, User
<1>3. \A u : Open(u)' = IF u = User(r) THEN Open(u) \cup {r} ELSE Open(u)
  BY <1>1 DEF Open, User
<1>4. onShiftBar[User(r)] = None
  BY <1>1, <1>2, TheOnly DEF onShiftBar, OnShift
<1>5. onShiftBar' = [onShiftBar EXCEPT ![User(r)] = r]
  <2>1. \A u \in Users : u = User(r) => Open(u)' = {r}
    BY <1>1, <1>3
  <2>2. onShiftBar' = [u \in Users |-> The(Open(u)')]
    BY DEF onShiftBar, OnShift
  <2> QED BY <1>2, <1>3, <2>1, <2>2, TheOnly DEF onShiftBar, OnShift
<1>6. shiftsBar' = shiftsBar
  BY <1>1 DEF shiftsBar, Finished, User
<1>7. r \notin {onShiftBar[u] : u \in Users} \cup UNION {{s.in, s.out} : s \in shiftsBar}
  BY <1>1, SpentCommitted
<1> QED BY <1>2, <1>4, <1>5, <1>6, <1>7
        DEF Ledger!ClockIn, Ledger!Spent, onShiftBar, shiftsBar, Finished

LEMMA CommitOutLedger ==
  ASSUME TypeInv, SessionInv, NEW r \in Requests, Commit(r), Kind(r) # "in"
  PROVE Ledger!ClockOut(User(r), r) /\ User(r) \in Users
<1>1. Kind(r) = "out" /\ User(r) \in Users
  BY InputsAssumption DEF TypeInv, TypeOK, Commit, Kind, User, Bodies
<1>2. PICK s \in Requests :
      /\ s = target[r] /\ pc[r] = "commit" /\ UNCHANGED <<body, sessions>>
      /\ clockOut' = [clockOut EXCEPT ![s] = r]
      /\ s \in Open(User(r)) /\ r \notin events /\ r # None
      /\ s \in sessions /\ clockOut[s] = None /\ User(s) = User(r)
      /\ clockOut \in [Requests -> events \cup {None}] /\ sessions \subseteq Requests
      /\ s # None
  BY <1>1, NoneAssumption DEF TypeInv, TypeOK, LockInv, Commit, Open
<1>4. \A u : Open(u)' = Open(u) \ {s}
  BY <1>2 DEF Open, User
<1>5. Open(User(r)) = {s}
  BY <1>2 DEF Open, SessionInv, OneOpenSession
<1>3. OnShift(User(r)) = s
  BY <1>5, TheOnly DEF OnShift
<1>6. onShiftBar' = [onShiftBar EXCEPT ![User(r)] = None]
  <2>1. \A u \in Users : u = User(r) => Open(u)' = {}
    BY <1>4, <1>5
  <2>2. \A u \in Users : u # User(r) => Open(u)' = Open(u)
    BY <1>2, <1>4 DEF Open
  <2>3. onShiftBar' = [u \in Users |-> The(Open(u)')]
    BY DEF onShiftBar, OnShift
  <2> QED BY <1>1, <2>1, <2>2, <2>3, TheOnly DEF onShiftBar, OnShift
<1>7. shiftsBar' = shiftsBar \cup {[user |-> User(r), in |-> s, out |-> r]}
  <2>1. Finished' = Finished \cup {s}
    BY <1>2 DEF Finished
  <2>2. \A q \in Finished : clockOut'[q] = clockOut[q] /\ User(q)' = User(q)
    BY <1>2 DEF Finished, User
  <2>3. clockOut'[s] = r /\ User(s)' = User(r)
    BY <1>2 DEF User
  <2>4. shiftsBar' = {[user |-> User(q)', in |-> q, out |-> clockOut'[q]] : q \in Finished'}
    BY DEF shiftsBar
  <2> QED BY <2>1, <2>2, <2>3, <2>4 DEF shiftsBar
<1>8. r \notin {onShiftBar[u] : u \in Users} \cup UNION {{q.in, q.out} : q \in shiftsBar}
  BY <1>2, SpentCommitted
<1>9. onShiftBar[User(r)] = s
  BY <1>1, <1>3 DEF onShiftBar
<1> QED BY <1>1, <1>2, <1>6, <1>7, <1>8, <1>9
        DEF Ledger!ClockOut, Ledger!Spent, onShiftBar, shiftsBar, Finished

LEMMA StepLedger ==
  TypeInv /\ SessionInv /\ [Next]_vars => [Ledger!Next]_<<onShiftBar, shiftsBar>>
<1> SUFFICES ASSUME TypeInv, SessionInv, [Next]_vars
             PROVE Ledger!Next \/ UNCHANGED <<onShiftBar, shiftsBar>> OBVIOUS
<1>1. ASSUME NEW r \in Requests, Commit(r) PROVE Ledger!Next
  BY <1>1, CommitInLedger, CommitOutLedger DEF Ledger!Next
<1>2. CASE \E r \in Requests : Serve(r) /\ ~ Commit(r)
  BY <1>2, SameTables DEF Serve, Evidence, Assess, Block, Dedupe, InsertDevice, SelectOpen,
     Recheck, NoOpenRow, OpenRow, AwaitRow, InsertSession, Reply, End, tables
<1>3. CASE (\E r \in Requests, b \in Inputs, t \in Time : Receive(r, b, t))
           \/ (\E r \in Requests : Fail(r)) \/ Tick \/ UNCHANGED vars
  BY <1>3, SameTables DEF Receive, Fail, Refuse, Abort, LoseAnswer, End, Tick, tables, vars,
     TypeInv, TypeOK
<1> QED BY <1>1, <1>2, <1>3 DEF Next, Idle

(* The two handlers, with all their interleavings and failures, implement  *)
(* the ledger in which an employee's clock-ins and clock-outs alternate.   *)
THEOREM ImplementsLedger == Spec => LedgerSpec
<1>1. Init => Ledger!Init
  BY DEF Init, Ledger!Init, OnShift, The, Open
<1>2. TypeInv /\ SessionInv /\ [Next]_vars => [Ledger!Next]_Ledger!ledger
  BY StepLedger DEF Ledger!ledger, onShiftBar, shiftsBar, Finished
<1> QED BY <1>1, <1>2, SessionInvariant, PTL DEF Spec, LedgerSpec, Ledger!Spec

(***************************************************************************)
(* What the ledger promises, and so every implementation of it.            *)
(***************************************************************************)

(* An employee's shift in progress and the finished shifts have no punch   *)
(* in common with each other or with those of anybody else.                *)
NoPunchTwice ==
  /\ \A u, v \in Users : onShiftBar[u] # None /\ onShiftBar[u] = onShiftBar[v] => u = v
  /\ \A s \in shiftsBar : s.in # s.out /\ \A u \in Users : onShiftBar[u] \notin {s.in, s.out}
  /\ \A s, t \in shiftsBar : s # t => {s.in, s.out} \cap {t.in, t.out} = {}

(* A shift starts and ends with punches of its own: payroll never counts   *)
(* one twice.  Nothing but the ledger is used in the proof.                *)
THEOREM LedgerUsesPunchesOnce == LedgerSpec => []NoPunchTwice
<1> DEFINE on == onShiftBar
           fin == shiftsBar
           LInv == /\ on \in [Users -> Requests \cup {None}]
                   /\ \A s \in fin : s.in # None /\ s.out # None
                   /\ NoPunchTwice
<1>1. Ledger!Init => LInv
  BY DEF Ledger!Init, NoPunchTwice, onShiftBar, shiftsBar, Finished
<1>2. LInv /\ [Ledger!Next]_Ledger!ledger => LInv'
  <2> SUFFICES ASSUME LInv, [Ledger!Next]_Ledger!ledger PROVE LInv' OBVIOUS
  <2>1. ASSUME NEW u \in Users, NEW p \in Requests, Ledger!ClockIn(u, p) PROVE LInv'
    <3>1. /\ on' = [on EXCEPT ![u] = p] /\ fin' = fin /\ p # None
          /\ \A v \in Users : on[v] # p
          /\ \A s \in fin : s.in # p /\ s.out # p
      BY <2>1, NoneAssumption DEF Ledger!ClockIn, Ledger!Spent, onShiftBar, shiftsBar, Finished
    <3> QED BY <3>1 DEF NoPunchTwice
  <2>2. ASSUME NEW u \in Users, NEW p \in Requests, Ledger!ClockOut(u, p) PROVE LInv'
    <3> DEFINE new == [user |-> u, in |-> on[u], out |-> p]
    <3>1. /\ on' = [on EXCEPT ![u] = None] /\ fin' = fin \cup {new} /\ p # None /\ on[u] # None
          /\ \A v \in Users : on[v] # p
          /\ \A s \in fin : s.in # p /\ s.out # p
      BY <2>2, NoneAssumption DEF Ledger!ClockOut, Ledger!Spent, onShiftBar, shiftsBar, Finished
    <3>2. new.in = on[u] /\ new.out = p
      OBVIOUS
    <3> HIDE DEF new
    <3> QED BY <3>1, <3>2 DEF NoPunchTwice
  <2>3. CASE UNCHANGED Ledger!ledger
    BY <2>3 DEF Ledger!ledger, NoPunchTwice, onShiftBar, shiftsBar, Finished
  <2> QED BY <2>1, <2>2, <2>3 DEF Ledger!Next
<1>3. LInv => NoPunchTwice
  OBVIOUS
<1> HIDE DEF LInv
<1> QED BY <1>1, <1>2, <1>3, PTL DEF LedgerSpec, Ledger!Spec

(* No punch of an employee is counted in two shifts.                       *)
THEOREM PunchesUsedOnce == Spec => []NoPunchTwice
BY ImplementsLedger, LedgerUsesPunchesOnce, PTL
=============================================================================
