---------------------------- MODULE PayDayProofs -----------------------------
(***************************************************************************)
(* Theorems about PayDay, for every set of calculations, employees,        *)
(* requests, accounts and batches, and every amount.                       *)
(***************************************************************************)
EXTENDS PayDay, PayrollProofs, PayslipProofs

(***************************************************************************)
(* The inductive invariant: what the calculations have read.               *)
(***************************************************************************)
Slip == [late : Nat, overtime : Nat, days : Nat]

LeaveRow == [kind : {"leave"}, emp : Emps, sum : Days, status : {"pending", "approved", "rejected"}]
OvertimeRow ==
  [kind : {"overtime"}, emp : Emps, sum : Minutes, status : {"pending", "approved", "rejected"}]

Created == {q \in Requests : request[q] # None}

(* Only finitely many requests have a row. *)
RequestInv ==
  /\ request \in [Requests -> LeaveRow \cup OvertimeRow \cup {None}]
  /\ IsFiniteSet(Created)

(* What the amounts of any requests may add up to. *)
Summed(S) == {SumFunction(f) : f \in UNION {[Q -> S] : Q \in {R \in SUBSET Requests : IsFiniteSet(R)}}}

Read ==
  {r \in [emp : Emps, step : {"overtime", "leave", "item"}, slip : Slip] :
     r.slip.late \in Late /\ r.slip.overtime \in Summed(Minutes) /\ r.slip.days \in Summed(Days)}

(* A calculation reads for an employee whose item is not inserted. *)
ReadingInv ==
  /\ reading \in [Calcs -> Read \cup {None}]
  /\ \A c \in Calcs : reading[c] # None => pc[c] = "items" /\ items[c][reading[c].emp] = None

DetailsInv ==
  /\ details \in [Calcs -> [Emps -> Slip \cup {None}]]
  /\ \A c \in Calcs, e \in Emps : details[c][e] = None <=> items[c][e] = None
  /\ \A c \in Calcs : pc[c] = "new" => Paid(c) = {}

(* No request of e was created or reviewed since c began. *)
Undisturbed(c, e) == \A q \in changed[c] : request[q].emp # e

(* What c has read so far for e is approved now. *)
UpToDate(c, e) ==
  /\ reading[c] # None /\ reading[c].emp = e =>
       /\ reading[c].step \in {"leave", "item"} =>
            reading[c].slip.overtime = SumApproved("overtime", e)
       /\ reading[c].step = "item" => reading[c].slip.days = SumApproved("leave", e)
  /\ details[c][e] # None =>
       /\ details[c][e].overtime = SumApproved("overtime", e)
       /\ details[c][e].days = SumApproved("leave", e)

DecidedInv ==
  /\ changed \in [Calcs -> SUBSET Created]
  /\ \A c \in Calcs, e \in Emps : Undisturbed(c, e) => UpToDate(c, e)

InputInv == RequestInv /\ ReadingInv /\ DetailsInv /\ DecidedInv

(***************************************************************************)
(* The accounts.                                                           *)
(***************************************************************************)
Account == [emp : Emps, number : Numbers, primary : BOOLEAN]

AccountInv ==
  /\ bpc \in [Accounts -> {"new", "demote", "insert", "commit", "done"}]
  /\ want \in [Accounts -> Account \cup {None}]
  /\ \A p \in Accounts : Running(p) => want[p] \in Account
  /\ demotes \in [Accounts -> SUBSET Numbers]
  /\ \A p \in Accounts : Running(p) /\ ~ want[p].primary => demotes[p] = {}
  /\ accounts \in [Emps -> [Numbers -> {"primary", "other", None}]]

(* Two requests that ran at the same time have met each other. *)
MetInv ==
  /\ met \in [Accounts -> SUBSET Accounts]
  /\ \A p, q \in Accounts : p \in met[q] <=> q \in met[p]
  /\ \A p \in Accounts : bpc[p] = "new" => met[p] = {}
  /\ \A p, q \in Accounts :
       Running(p) /\ Running(q) /\ p # q /\ want[p].emp = want[q].emp => p \in met[q]

(* p has made n the primary account of e. *)
Made(p, e, n) == bpc[p] = "done" /\ want[p] = [emp |-> e, number |-> n, primary |-> TRUE]

(* p is why n is primary: it has met every request under way that will not *)
(* demote n, and for every other primary account the request that made it. *)
Witness(p, e, n) ==
  /\ Made(p, e, n)
  /\ \A q \in Accounts :
       Running(q) /\ want[q].emp = e /\ want[q].primary /\ n \notin demotes[q] => q \in met[p]
  /\ \A m \in Numbers \ {n} :
       accounts[e][m] = "primary" => \E q \in Accounts : Made(q, e, m) /\ q \in met[p]

PrimaryInv ==
  \A e \in Emps, n \in Numbers :
    accounts[e][n] = "primary" => \E p \in Accounts : Witness(p, e, n)

(***************************************************************************)
(* The transfers.                                                          *)
(***************************************************************************)
Written(b) == tpc[b] = "commit" \/ b \in batches

BatchInv ==
  /\ tpc \in [Batches -> {"new", "open", "fill", "commit", "done"}]
  /\ batch = [b \in Batches |-> batch[b]] /\ transfers = [b \in Batches |-> transfers[b]]
  /\ batches \subseteq {b \in Batches : tpc[b] = "done"}
  /\ submitted \subseteq batches
  /\ \A b \in Batches : tpc[b] \in {"open", "fill"} \/ Written(b) =>
       batch[b] \in [run : approved, total : Nat]
  /\ \A b \in Batches : tpc[b] = "fill" \/ Written(b) => batch[b].total = total[batch[b].run].net

(* Every employee has a line, at the net pay of the payslip. *)
LinesInv ==
  \A b \in Batches : Written(b) =>
    /\ {line.emp : line \in transfers[b]} = Emps
    /\ \A line \in transfers[b] : line.cents = items[batch[b].run][line.emp].net /\ line.cents > 0

TwiceInv ==
  \A b \in Batches : Written(b) =>
    \A x, y \in transfers[b] : x.emp = y.emp /\ x # y =>
      \E p, q \in Accounts : p \in met[q] /\ Made(p, x.emp, x.account) /\ Made(q, y.emp, y.account)

BankInv == AccountInv /\ MetInv /\ PrimaryInv /\ BatchInv /\ LinesInv /\ TwiceInv

PayDayInv == Inv /\ Books /\ InputInv /\ BankInv

LEMMA InitPayDay == PayDayInit => PayDayInv
<1> SUFFICES ASSUME PayDayInit PROVE PayDayInv OBVIOUS
<1>0. Init /\ InputInit /\ BankInit
  BY DEF PayDayInit
<1>1. Inv /\ Books
  BY <1>0, InitInv, InitBooks
<1>2. InputInv
  <2>1. Created = {}
    BY <1>0 DEF InputInit, Created
  <2>2. RequestInv
    BY <1>0, <2>1, FS_EmptySet DEF InputInit, RequestInv
  <2>3. ReadingInv /\ DecidedInv
    BY <1>0, <2>1 DEF InputInit, ReadingInv, DecidedInv, UpToDate
  <2>4. DetailsInv
    BY <1>0 DEF Init, InputInit, DetailsInv, Paid
  <2> QED BY <2>2, <2>3, <2>4 DEF InputInv
<1>3. AccountInv /\ MetInv
  BY <1>0 DEF BankInit, AccountInv, MetInv, Running
<1>4. PrimaryInv
  BY <1>0, NoAccountAssumption DEF BankInit, PrimaryInv
<1>5. BatchInv /\ LinesInv /\ TwiceInv
  BY <1>0 DEF BankInit, BatchInv, LinesInv, TwiceInv, Written
<1> QED BY <1>1, <1>2, <1>3, <1>4, <1>5 DEF BankInv, PayDayInv

(***************************************************************************)
(* Every step of PayDay is one of Payroll, or leaves the payroll alone.    *)
(***************************************************************************)

(* What an employee takes home for what was read is among Earnings. *)
LEMMA ReadIsEarned ==
  ASSUME NEW r \in Read
  PROVE  TakeHome(Base, r.slip) \in Earnings
<1> DEFINE s == r.slip
<1>1. /\ s \in Slip /\ s.late \in Late /\ s.overtime \in Summed(Minutes) /\ s.days \in Summed(Days)
  BY DEF Read
<1> HIDE DEF s
<1>2. s = [late |-> s.late, overtime |-> s.overtime, days |-> s.days]
  BY <1>1 DEF Slip
<1>3. PICK Q \in {S \in SUBSET Requests : IsFiniteSet(S)} :
        \E f \in [Q -> Minutes] : s.overtime = SumFunction(f)
  BY <1>1 DEF Summed
<1>4. PICK R \in {S \in SUBSET Requests : IsFiniteSet(S)} :
        \E f \in [R -> Days] : s.days = SumFunction(f)
  BY <1>1 DEF Summed
<1>5. PICK minutes \in [Q -> Minutes] : s.overtime = SumFunction(minutes)
  BY <1>3
<1>6. PICK days \in [R -> Days] : s.days = SumFunction(days)
  BY <1>4
<1>7. TakeHome(Base, [late |-> s.late, overtime |-> SumFunction(minutes), days |-> SumFunction(days)])
        \in Earnings
  BY <1>1, EarningsAssumption
<1>8. TakeHome(Base, s) \in Earnings
  BY <1>2, <1>5, <1>6, <1>7
<1> QED BY <1>8 DEF s

LEMMA PayItemAdds ==
  ASSUME InputInv, NEW c \in Calcs, PayItem(c)
  PROVE  /\ reading[c] \in Read /\ reading[c] # None
         /\ TakeHome(Base, reading[c].slip) \in Earnings
         /\ AddItem(c, reading[c].emp, TakeHome(Base, reading[c].slip))
<1>1. reading[c] \in Read /\ reading[c] # None
  BY DEF PayItem, At, InputInv, ReadingInv
<1>2. TakeHome(Base, reading[c].slip) \in Earnings
  BY <1>1, ReadIsEarned
<1> QED BY <1>1, <1>2 DEF PayItem

LEMMA StepPayroll ==
  ASSUME InputInv, [PayDayNext]_payDayVars
  PROVE  [Next]_vars
<1>1. CASE PayrollStep
  BY <1>1 DEF PayrollStep, Next, Calculate
<1>2. ASSUME NEW c \in Calcs, PayItem(c)
      PROVE  Next
  <2>1. reading[c].emp \in Emps
    BY <1>2, PayItemAdds DEF Read
  <2> QED BY <1>2, <2>1, PayItemAdds DEF Next, Calculate
<1>3. CASE BankNext
  BY <1>3 DEF BankNext, AddAccount, Demote, InsertAccount, CommitAccount, AbortAccount,
              CheckRun, OpenBatch, FillBatch, CommitBatch, AbortBatch, MarkSubmitted
<1>4. CASE PayDayIdle
  BY <1>4 DEF PayDayIdle, Next
<1>5. ASSUME NEW c \in Calcs,
             \/ \E e \in Emps, late \in Late : ReadAttendance(c, e, late)
             \/ ReadOvertime(c) \/ ReadLeave(c)
      PROVE  UNCHANGED vars
  BY <1>5 DEF ReadAttendance, ReadOvertime, ReadLeave
<1>6. ASSUME NEW q \in Requests,
             \/ \E e \in Emps, n \in Days : CreateLeave(q, e, n)
             \/ \E e \in Emps, n \in Minutes : CreateOvertime(q, e, n)
             \/ \E d \in {"approved", "rejected"} : ReviewLeave(q, d) \/ ReviewOvertime(q, d)
      PROVE  UNCHANGED vars
  BY <1>6 DEF CreateLeave, CreateOvertime, ReviewLeave, ReviewOvertime, Review, Put
<1> QED BY <1>1, <1>2, <1>3, <1>4, <1>5, <1>6 DEF PayDayNext, InputNext, payDayVars

(***************************************************************************)
(* What the calculations have read.                                        *)
(***************************************************************************)
LEMMA SumsAreNat ==
  ASSUME NEW S \in SUBSET Nat, NEW n \in Summed(S)
  PROVE  n \in Nat
<1>1. PICK Q \in {R \in SUBSET Requests : IsFiniteSet(R)} : \E f \in [Q -> S] : n = SumFunction(f)
  BY DEF Summed
<1>2. PICK f \in [Q -> S] : n = SumFunction(f)
  BY <1>1
<1>3. f \in [Q -> Nat]
  OBVIOUS
<1> QED BY <1>2, <1>3, SumType

LEMMA NothingIsSummed ==
  ASSUME NEW S
  PROVE  0 \in Summed(S)
<1> DEFINE f == [q \in {} |-> 0]
<1>1. f \in [{} -> S] /\ DOMAIN f = {}
  OBVIOUS
<1> HIDE DEF f
<1>2. SumFunction(f) = 0
  BY <1>1, SumEmpty
<1> QED BY <1>1, <1>2, FS_EmptySet DEF Summed

LEMMA ApprovedIsSummed ==
  ASSUME RequestInv, NEW e
  PROVE  /\ SumApproved("overtime", e) \in Summed(Minutes)
         /\ SumApproved("leave", e) \in Summed(Days)
<1>1. ASSUME NEW kind, NEW S, \A q \in Approved(kind, e) : request[q].sum \in S
      PROVE  SumApproved(kind, e) \in Summed(S)
  <2> DEFINE f == [q \in Approved(kind, e) |-> request[q].sum]
  <2>1. Approved(kind, e) \in SUBSET Requests /\ IsFiniteSet(Approved(kind, e))
    <3>1. Approved(kind, e) \in SUBSET Created /\ Created \in SUBSET Requests
      BY DEF Approved, Created
    <3> QED BY <3>1, FS_Subset DEF RequestInv
  <2>2. f \in [Approved(kind, e) -> S]
    BY <1>1
  <2>3. SumApproved(kind, e) = SumFunction(f)
    BY DEF SumApproved
  <2> HIDE DEF f
  <2> QED BY <2>1, <2>2, <2>3 DEF Summed
<1>2. \A q \in Approved("overtime", e) : request[q].sum \in Minutes
  BY DEF Approved, RequestInv, LeaveRow, OvertimeRow
<1>3. \A q \in Approved("leave", e) : request[q].sum \in Days
  BY DEF Approved, RequestInv, LeaveRow, OvertimeRow
<1> QED BY <1>1, <1>2, <1>3

LEMMA ReadIsRead ==
  ASSUME NEW e \in Emps, NEW step \in {"overtime", "leave", "item"},
         NEW late \in Late, NEW overtime \in Summed(Minutes), NEW days \in Summed(Days)
  PROVE  [emp |-> e, step |-> step, slip |-> [late |-> late, overtime |-> overtime, days |-> days]] \in Read
<1>1. overtime \in Nat /\ days \in Nat /\ late \in Nat
  <2>1. Minutes \in SUBSET Nat /\ Days \in SUBSET Nat /\ late \in Nat
    BY SlipAssumption
  <2> QED BY <2>1, SumsAreNat
<1> QED BY <1>1 DEF Read, Slip

(* A step of the payroll that inserts no item. *)
LEMMA PayrollStepMoves ==
  ASSUME Inv, PayrollStep
  PROVE  /\ UNCHANGED <<items, request, details, changed>>
         /\ reading' = [c \in Calcs |-> IF pc'[c] = "items" THEN reading[c] ELSE None]
         /\ \A c \in Calcs : pc'[c] = "new" => pc[c] = "new"
<1>1. /\ UNCHANGED <<request, details, changed>>
      /\ reading' = [c \in Calcs |-> IF pc'[c] = "items" THEN reading[c] ELSE None]
  BY DEF PayrollStep
<1>2. UNCHANGED items /\ (UNCHANGED pc \/ \E c \in Calcs, l \in Answers \cup Busy : pc' = [pc EXCEPT ![c] = l])
  <2>1. ASSUME NEW c \in Calcs, Start(c) \/ SelectRun(c) \/ RecheckRun(c) \/ InsertRun(c)
                                  \/ Totals(c) \/ Commit(c) \/ Abort(c)
        PROVE  UNCHANGED items /\ \E l \in Answers \cup Busy : pc' = [pc EXCEPT ![c] = l]
    BY <2>1 DEF Start, SelectRun, RecheckRun, InsertRun, Totals, Commit, Abort, RunFound,
                NoRunFound, AwaitRun, Goto, Answers, Busy
  <2>2. ASSUME NEW c \in Calcs, Approve(c)
        PROVE  UNCHANGED <<items, pc>>
    BY <2>2 DEF Approve
  <2>3. ASSUME NEW a \in Advances,
               \/ \E e \in Emps, cents \in Amounts : AskAdvance(a, e, cents)
               \/ InsertAdvance(a) \/ FailAdvance(a)
               \/ \E d \in {"approved", "rejected"} : ReviewAdvance(a, d)
        PROVE  UNCHANGED <<items, pc>>
    BY <2>3 DEF AskAdvance, InsertAdvance, FailAdvance, ReviewAdvance, runVars
  <2> QED BY <2>1, <2>2, <2>3 DEF PayrollStep
<1>3. "new" \notin Answers \cup Busy
  BY DEF Answers, Busy
<1> QED BY <1>1, <1>2, <1>3 DEF Inv, ShapeInv

(* What is approved changes only with a request. *)
LEMMA SameDecisions ==
  ASSUME UNCHANGED request
  PROVE  /\ Created' = Created /\ (RequestInv => RequestInv')
         /\ \A kind, e : SumApproved(kind, e)' = SumApproved(kind, e)
BY DEF Created, RequestInv, SumApproved, Approved

LEMMA PayrollStepInputs ==
  ASSUME Inv, InputInv, PayrollStep
  PROVE  InputInv'
<1>1. /\ UNCHANGED <<items, request, details, changed>>
      /\ reading' = [c \in Calcs |-> IF pc'[c] = "items" THEN reading[c] ELSE None]
      /\ \A c \in Calcs : pc'[c] = "new" => pc[c] = "new"
  BY PayrollStepMoves
<1>2. RequestInv' /\ Created' = Created /\ \A kind, e : SumApproved(kind, e)' = SumApproved(kind, e)
  BY <1>1, SameDecisions DEF InputInv
<1>3. ReadingInv'
  <2>1. reading' \in [Calcs -> Read \cup {None}]
    BY <1>1 DEF InputInv, ReadingInv
  <2>2. \A c \in Calcs : reading'[c] # None => pc'[c] = "items" /\ items'[c][reading'[c].emp] = None
    BY <1>1 DEF InputInv, ReadingInv
  <2>3. Read' = Read
    BY DEF Read
  <2> QED BY <2>1, <2>2 DEF ReadingInv
<1>4. DetailsInv'
  BY <1>1 DEF InputInv, DetailsInv, Paid
<1>5. DecidedInv'
  <2>1. ASSUME NEW c \in Calcs, NEW e \in Emps
        PROVE  /\ Undisturbed(c, e)' = Undisturbed(c, e)
               /\ UpToDate(c, e) => UpToDate(c, e)'
    BY <1>1, <1>2 DEF Undisturbed, UpToDate
  <2> QED BY <1>1, <1>2, <2>1 DEF InputInv, DecidedInv
<1> QED BY <1>2, <1>3, <1>4, <1>5 DEF InputInv

(* One statement of c that reads, for an employee. *)
LEMMA ReadInputs ==
  ASSUME InputInv, NEW c \in Calcs, NEW r \in Read,
         pc[c] = "items", items[c][r.emp] = None, reading' = [reading EXCEPT ![c] = r],
         UNCHANGED <<request, details, changed, vars>>,
         Undisturbed(c, r.emp) =>
           /\ r.step \in {"leave", "item"} => r.slip.overtime = SumApproved("overtime", r.emp)
           /\ r.step = "item" => r.slip.days = SumApproved("leave", r.emp)
  PROVE  InputInv'
<1>0. UNCHANGED <<pc, items>>
  BY DEF vars, runVars
<1>1. RequestInv' /\ Created' = Created /\ \A kind, e : SumApproved(kind, e)' = SumApproved(kind, e)
  BY SameDecisions DEF InputInv
<1>2. /\ reading'[c] = r
      /\ \A d \in Calcs : d # c => reading'[d] = reading[d]
  BY DEF InputInv, ReadingInv
<1>3. ReadingInv'
  <2>1. reading' \in [Calcs -> Read \cup {None}]
    BY DEF InputInv, ReadingInv
  <2>2. \A d \in Calcs : reading'[d] # None => pc'[d] = "items" /\ items'[d][reading'[d].emp] = None
    BY <1>0, <1>2 DEF InputInv, ReadingInv
  <2>3. Read' = Read
    BY DEF Read
  <2> QED BY <2>1, <2>2 DEF ReadingInv
<1>4. DetailsInv'
  BY <1>0 DEF InputInv, DetailsInv, Paid
<1>5. DecidedInv'
  <2>1. \A d \in Calcs, e \in Emps : Undisturbed(d, e)' = Undisturbed(d, e)
    BY DEF Undisturbed
  <2>2. ASSUME NEW d \in Calcs, NEW e \in Emps, Undisturbed(d, e)
        PROVE  UpToDate(d, e)'
    <3>1. UpToDate(d, e)
      BY <2>2 DEF InputInv, DecidedInv
    <3>2. CASE d # c
      BY <1>1, <1>2, <3>1, <3>2 DEF UpToDate
    <3>3. CASE d = c
      BY <1>1, <1>2, <2>2, <3>1, <3>3 DEF UpToDate
    <3> QED BY <3>2, <3>3
  <2> QED BY <1>1, <2>1, <2>2 DEF InputInv, DecidedInv
<1> QED BY <1>1, <1>3, <1>4, <1>5 DEF InputInv

(* A record of a reading, step and payslip replaced. *)
LEMMA Moved ==
  ASSUME NEW h \in Read, NEW t, NEW s
  PROVE  [h EXCEPT !.step = t, !.slip = s] = [emp |-> h.emp, step |-> t, slip |-> s]
<1>0. h \in [emp : Emps, step : {"overtime", "leave", "item"}, slip : Slip]
  BY DEF Read
<1>1. [h EXCEPT !.step = t, !.slip = s] = [[h EXCEPT !.step = t] EXCEPT !.slip = s]
  BY <1>0
<1>2. [h EXCEPT !.step = t] = [emp |-> h.emp, step |-> t, slip |-> h.slip]
  BY <1>0
<1>3. PICK k : k = [emp |-> h.emp, step |-> t, slip |-> h.slip]
  OBVIOUS
<1>4. [k EXCEPT !.slip = s] = [emp |-> h.emp, step |-> t, slip |-> s]
  BY <1>3
<1> QED BY <1>1, <1>2, <1>3, <1>4

LEMMA ReadStepInputs ==
  ASSUME InputInv, NEW c \in Calcs,
         \/ \E e \in Emps, late \in Late : ReadAttendance(c, e, late)
         \/ ReadOvertime(c)
         \/ ReadLeave(c)
  PROVE  InputInv'
<1>1. ASSUME NEW e \in Emps, NEW late \in Late, ReadAttendance(c, e, late)
      PROVE  InputInv'
  <2>1. PICK r : r = [emp |-> e, step |-> "overtime", slip |-> [late |-> late, overtime |-> 0, days |-> 0]]
    OBVIOUS
  <2>2. r \in Read
    BY <2>1, ReadIsRead, NothingIsSummed
  <2>3. /\ pc[c] = "items" /\ items[c][r.emp] = None /\ reading' = [reading EXCEPT ![c] = r]
        /\ UNCHANGED <<request, details, changed, vars>> /\ r.step = "overtime"
    BY <1>1, <2>1 DEF ReadAttendance
  <2> QED BY <2>2, <2>3, ReadInputs
<1>2. ASSUME At(c, "overtime") \/ At(c, "leave")
      PROVE  /\ reading[c] \in Read /\ reading[c] # None /\ pc[c] = "items"
             /\ items[c][reading[c].emp] = None /\ reading[c].emp \in Emps
             /\ reading[c].slip.late \in Late /\ reading[c].slip \in Slip
             /\ reading[c].slip.overtime \in Summed(Minutes) /\ reading[c].slip.days \in Summed(Days)
  <2>1. reading[c] \in Read
    BY <1>2 DEF At, InputInv, ReadingInv
  <2> QED BY <1>2, <2>1 DEF At, InputInv, ReadingInv, Read
<1>3. ASSUME ReadOvertime(c)
      PROVE  InputInv'
  <2>1. PICK x : x = SumApproved("overtime", reading[c].emp)
    OBVIOUS
  <2>2. x \in Summed(Minutes)
    BY <2>1, ApprovedIsSummed DEF InputInv
  <2>3. PICK r : r = [emp |-> reading[c].emp, step |-> "leave",
                      slip |-> [late |-> reading[c].slip.late, overtime |-> x, days |-> reading[c].slip.days]]
    OBVIOUS
  <2>4. /\ reading' = [reading EXCEPT ![c].step = "leave", ![c].slip.overtime = x]
        /\ UNCHANGED <<request, details, changed, vars>> /\ At(c, "overtime")
    BY <1>3, <2>1 DEF ReadOvertime
  <2>5. r \in Read
    BY <1>2, <2>2, <2>3, <2>4, ReadIsRead
  <2>6. reading' = [reading EXCEPT ![c] = r]
    <3>1. PICK h : h = reading[c]
      OBVIOUS
    <3>2. h \in [emp : Emps, step : {"overtime", "leave", "item"}, slip : Slip]
      BY <1>2, <2>4, <3>1 DEF Read
    <3>3. h.slip \in [late : Nat, overtime : Nat, days : Nat]
      BY <3>2 DEF Slip
    <3>4. reading' = [reading EXCEPT ![c] = [h EXCEPT !.step = "leave", !.slip = [h.slip EXCEPT !.overtime = x]]]
      BY <2>4, <3>1, <3>2 DEF InputInv, ReadingInv
    <3>5. [h.slip EXCEPT !.overtime = x] = r.slip
      BY <2>3, <3>1, <3>3
    <3>6. r = [emp |-> h.emp, step |-> "leave", slip |-> r.slip]
      BY <2>3, <3>1
    <3>7. [h EXCEPT !.step = "leave", !.slip = r.slip] = [emp |-> h.emp, step |-> "leave", slip |-> r.slip]
      BY <1>2, <2>4, <3>1, Moved, Zenon
    <3> QED BY <3>4, <3>5, <3>6, <3>7
  <2>7. /\ pc[c] = "items" /\ items[c][r.emp] = None
        /\ r.step = "leave" /\ r.slip.overtime = SumApproved("overtime", r.emp)
    BY <1>2, <2>1, <2>3, <2>4
  <2> QED BY <2>4, <2>5, <2>6, <2>7, ReadInputs
<1>4. ASSUME ReadLeave(c)
      PROVE  InputInv'
  <2>1. PICK x : x = SumApproved("leave", reading[c].emp)
    OBVIOUS
  <2>2. x \in Summed(Days)
    BY <2>1, ApprovedIsSummed DEF InputInv
  <2>3. PICK r : r = [emp |-> reading[c].emp, step |-> "item",
                      slip |-> [late |-> reading[c].slip.late, overtime |-> reading[c].slip.overtime, days |-> x]]
    OBVIOUS
  <2>4. /\ reading' = [reading EXCEPT ![c].step = "item", ![c].slip.days = x]
        /\ UNCHANGED <<request, details, changed, vars>> /\ At(c, "leave")
    BY <1>4, <2>1 DEF ReadLeave
  <2>5. r \in Read
    BY <1>2, <2>2, <2>3, <2>4, ReadIsRead
  <2>6. reading' = [reading EXCEPT ![c] = r]
    <3>1. PICK h : h = reading[c]
      OBVIOUS
    <3>2. h \in [emp : Emps, step : {"overtime", "leave", "item"}, slip : Slip]
      BY <1>2, <2>4, <3>1 DEF Read
    <3>3. h.slip \in [late : Nat, overtime : Nat, days : Nat]
      BY <3>2 DEF Slip
    <3>4. reading' = [reading EXCEPT ![c] = [h EXCEPT !.step = "item", !.slip = [h.slip EXCEPT !.days = x]]]
      BY <2>4, <3>1, <3>2 DEF InputInv, ReadingInv
    <3>5. [h.slip EXCEPT !.days = x] = r.slip
      BY <2>3, <3>1, <3>3
    <3>6. r = [emp |-> h.emp, step |-> "item", slip |-> r.slip]
      BY <2>3, <3>1
    <3>7. [h EXCEPT !.step = "item", !.slip = r.slip] = [emp |-> h.emp, step |-> "item", slip |-> r.slip]
      BY <1>2, <2>4, <3>1, Moved, Zenon
    <3> QED BY <3>4, <3>5, <3>6, <3>7
  <2>7. /\ pc[c] = "items" /\ items[c][r.emp] = None
        /\ r.step = "item" /\ r.slip.days = SumApproved("leave", r.emp)
    BY <1>2, <2>1, <2>3, <2>4
  <2>8. Undisturbed(c, r.emp) => r.slip.overtime = SumApproved("overtime", r.emp)
    BY <1>2, <2>3, <2>4 DEF At, InputInv, DecidedInv, UpToDate
  <2> QED BY <2>4, <2>5, <2>6, <2>7, <2>8, ReadInputs
<1> QED BY <1>1, <1>3, <1>4

(* The item is inserted with what was read. *)
LEMMA PayItemInputs ==
  ASSUME Inv, Books, InputInv, NEW c \in Calcs, PayItem(c)
  PROVE  InputInv'
<1>1. PICK e \in Emps, slip \in Slip :
        /\ e = reading[c].emp /\ slip = reading[c].slip /\ reading[c].step = "item" /\ reading[c] # None
  BY PayItemAdds DEF Read, PayItem, At
<1>2. /\ pc[c] = "items" /\ items[c][e] = None /\ UNCHANGED <<pc, request, changed>>
      /\ details' = [details EXCEPT ![c][e] = slip] /\ reading' = [reading EXCEPT ![c] = None]
      /\ \E item \in Item : items' = [items EXCEPT ![c][e] = item]
  <2>1. AddItem(c, e, TakeHome(Base, slip)) /\ TakeHome(Base, slip) \in Nat
    BY <1>1, PayItemAdds, MoneyAssumption
  <2>2. Deductible(e) \in Nat
    BY RowsAreAmounts, ApprovedAreRows DEF Deductible, Books
  <2>3. Payable(TakeHome(Base, slip), Deductible(e)) \in Nat
    <3>1. \A x, y \in Nat : Payable(x, y) \in Nat
      BY DEF Payable
    <3> QED BY <2>1, <2>2, <3>1
  <2>4. items' = [items EXCEPT ![c][e] =
                    [ewa |-> Deductible(e), net |-> Payable(TakeHome(Base, slip), Deductible(e))]]
    BY <2>1 DEF AddItem, Deductible
  <2> QED BY <1>1, <2>1, <2>2, <2>3, <2>4 DEF AddItem, PayItem, Item
<1>3. RequestInv' /\ Created' = Created /\ \A kind, f : SumApproved(kind, f)' = SumApproved(kind, f)
  BY <1>2, SameDecisions DEF InputInv
<1>4. /\ items'[c][e] # None /\ details'[c][e] = slip /\ slip # None
      /\ \A d \in Calcs, f \in Emps : d # c \/ f # e =>
           items'[d][f] = items[d][f] /\ details'[d][f] = details[d][f]
      /\ details' \in [Calcs -> [Emps -> Slip \cup {None}]]
  BY <1>2, NoRowAssumption, NoSlipAssumption DEF Slip, Item, Books, ItemInv, InputInv, DetailsInv
<1>5. ReadingInv'
  <2>1. reading' \in [Calcs -> Read \cup {None}]
    BY <1>2 DEF InputInv, ReadingInv
  <2>2. ASSUME NEW d \in Calcs, reading'[d] # None
        PROVE  pc'[d] = "items" /\ items'[d][reading'[d].emp] = None
    <3>1. d # c /\ reading'[d] = reading[d]
      BY <1>2, <2>2 DEF InputInv, ReadingInv
    <3>2. reading[d].emp \in Emps /\ pc[d] = "items" /\ items[d][reading[d].emp] = None
      BY <2>2, <3>1 DEF InputInv, ReadingInv, Read
    <3> QED BY <1>2, <1>4, <3>1, <3>2
  <2>3. Read' = Read
    BY DEF Read
  <2> QED BY <2>1, <2>2 DEF ReadingInv
<1>6. DetailsInv'
  <2>1. \A d \in Calcs, f \in Emps : details'[d][f] = None <=> items'[d][f] = None
    BY <1>4 DEF InputInv, DetailsInv
  <2>2. \A d \in Calcs : pc'[d] = "new" => d # c /\ Paid(d) = {} /\ Paid(d)' = Paid(d)
    BY <1>2, <1>4 DEF InputInv, DetailsInv, Paid
  <2> QED BY <1>4, <2>1, <2>2 DEF DetailsInv
<1>7. DecidedInv'
  <2>1. \A d \in Calcs, f \in Emps : Undisturbed(d, f)' = Undisturbed(d, f)
    BY <1>2 DEF Undisturbed
  <2>2. ASSUME NEW d \in Calcs, NEW f \in Emps, Undisturbed(d, f)
        PROVE  UpToDate(d, f)'
    <3>1. UpToDate(d, f)
      BY <2>2 DEF InputInv, DecidedInv
    <3>2. reading'[c] = None /\ (d # c => reading'[d] = reading[d])
      BY <1>2 DEF InputInv, ReadingInv
    <3>3. CASE d = c /\ f = e
      BY <1>1, <1>3, <1>4, <3>1, <3>2, <3>3 DEF UpToDate
    <3>4. CASE d # c \/ f # e
      BY <1>3, <1>4, <3>1, <3>2, <3>4 DEF UpToDate
    <3> QED BY <3>3, <3>4
  <2> QED BY <1>2, <1>3, <2>1, <2>2 DEF InputInv, DecidedInv
<1> QED BY <1>3, <1>5, <1>6, <1>7 DEF InputInv

(* A request is created or reviewed: the sums of other employees stay, and *)
(* every calculation under way takes note of the request.                  *)
LEMMA PutInputs ==
  ASSUME InputInv, NEW q \in Requests, NEW row \in LeaveRow \cup OvertimeRow, Put(q, row),
         request[q] # None => row.emp = request[q].emp
  PROVE  InputInv'
<1>1. /\ request' = [request EXCEPT ![q] = row]
      /\ changed' = [c \in Calcs |-> IF pc[c] = "new" THEN {} ELSE changed[c] \cup {q}]
      /\ UNCHANGED <<reading, details, pc, items>>
  BY DEF Put, vars, runVars
<1>2. row # None
  BY NoSlipAssumption, SlipAssumption DEF LeaveRow, OvertimeRow
<1>3. /\ request'[q] = row /\ \A p \in Requests : p # q => request'[p] = request[p]
      /\ request' \in [Requests -> LeaveRow \cup OvertimeRow \cup {None}]
  BY <1>1 DEF InputInv, RequestInv
<1>4. Created' = Created \cup {q}
  BY <1>2, <1>3 DEF Created
<1>5. RequestInv'
  <2>1. IsFiniteSet(Created')
    BY <1>4, FS_AddElement DEF InputInv, RequestInv
  <2> QED BY <1>3, <2>1 DEF RequestInv, LeaveRow, OvertimeRow
<1>6. ReadingInv' /\ DetailsInv'
  <2>1. Read' = Read
    BY DEF Read
  <2> QED BY <1>1, <2>1 DEF InputInv, ReadingInv, DetailsInv, Paid
<1>7. ASSUME NEW kind, NEW e, e # row.emp
      PROVE  SumApproved(kind, e)' = SumApproved(kind, e)
  <2>1. Approved(kind, e)' = Approved(kind, e) /\ q \notin Approved(kind, e)
    BY <1>3, <1>7 DEF Approved
  <2>2. \A p \in Approved(kind, e) : request'[p] = request[p]
    BY <1>3, <2>1 DEF Approved
  <2>3. [p \in Approved(kind, e)' |-> request'[p].sum] = [p \in Approved(kind, e) |-> request[p].sum]
    BY <2>1, <2>2
  <2> QED BY <2>3 DEF SumApproved
<1>8. DecidedInv'
  <2>1. changed' \in [Calcs -> SUBSET (Created \cup {q})]
    BY <1>1 DEF InputInv, DecidedInv
  <2>2. ASSUME NEW c \in Calcs, NEW e \in Emps, Undisturbed(c, e)'
        PROVE  UpToDate(c, e)'
    <3>1. CASE pc[c] = "new"
      <4>1. reading[c] = None /\ details[c][e] = None
        BY <3>1 DEF InputInv, ReadingInv, DetailsInv, Paid
      <4> QED BY <1>1, <4>1 DEF UpToDate
    <3>2. CASE pc[c] # "new"
      <4>1. changed'[c] = changed[c] \cup {q}
        BY <1>1, <3>2
      <4>2. row.emp # e
        BY <1>3, <2>2, <4>1 DEF Undisturbed
      <4>3. \A p \in changed[c] : p \in Requests /\ request[p] # None
        BY DEF InputInv, DecidedInv, Created
      <4>4. \A p \in changed[c] : request'[p].emp = request[p].emp
        BY <1>3, <4>3
      <4>5. Undisturbed(c, e)
        BY <2>2, <4>1, <4>4 DEF Undisturbed
      <4>6. UpToDate(c, e)
        BY <4>5 DEF InputInv, DecidedInv
      <4>7. \A kind : SumApproved(kind, e)' = SumApproved(kind, e)
        BY <1>7, <4>2
      <4> QED BY <1>1, <4>6, <4>7 DEF UpToDate
    <3> QED BY <3>1, <3>2
  <2> QED BY <1>4, <2>1, <2>2 DEF DecidedInv
<1> QED BY <1>5, <1>6, <1>8 DEF InputInv

LEMMA RequestInputs ==
  ASSUME InputInv, NEW q \in Requests,
         \/ \E e \in Emps, n \in Days : CreateLeave(q, e, n)
         \/ \E e \in Emps, n \in Minutes : CreateOvertime(q, e, n)
         \/ \E d \in {"approved", "rejected"} : ReviewLeave(q, d) \/ ReviewOvertime(q, d)
  PROVE  InputInv'
<1>1. ASSUME NEW e \in Emps, NEW n \in Days, CreateLeave(q, e, n)
      PROVE  InputInv'
  <2>1. PICK row : row = [kind |-> "leave", emp |-> e, sum |-> n, status |-> "pending"]
    OBVIOUS
  <2>2. row \in LeaveRow /\ request[q] = None /\ Put(q, row)
    BY <1>1, <2>1 DEF CreateLeave, LeaveRow
  <2> QED BY <2>2, PutInputs
<1>2. ASSUME NEW e \in Emps, NEW n \in Minutes, CreateOvertime(q, e, n)
      PROVE  InputInv'
  <2>1. PICK row : row = [kind |-> "overtime", emp |-> e, sum |-> n, status |-> "pending"]
    OBVIOUS
  <2>2. row \in OvertimeRow /\ request[q] = None /\ Put(q, row)
    BY <1>2, <2>1 DEF CreateOvertime, OvertimeRow
  <2> QED BY <2>2, PutInputs
<1>3. ASSUME NEW kind, NEW d \in {"approved", "rejected"}, Review(kind, q, d)
      PROVE  InputInv'
  <2>1. PICK row : row = [request[q] EXCEPT !.status = d]
    OBVIOUS
  <2>2. request[q] \in LeaveRow \cup OvertimeRow /\ Put(q, row)
    BY <1>3, <2>1 DEF Review, InputInv, RequestInv
  <2>3. row \in LeaveRow \cup OvertimeRow /\ row.emp = request[q].emp
    BY <2>1, <2>2 DEF LeaveRow, OvertimeRow
  <2> QED BY <2>2, <2>3, PutInputs
<1> QED BY <1>1, <1>2, <1>3 DEF ReviewLeave, ReviewOvertime

LEMMA StepInputs ==
  ASSUME Inv, Books, InputInv, [PayDayNext]_payDayVars
  PROVE  InputInv'
<1>1. ASSUME UNCHANGED <<vars, inputVars>>
      PROVE  InputInv'
  <2>1. UNCHANGED <<pc, items, request, reading, details, changed>>
    BY <1>1 DEF vars, runVars, inputVars
  <2>2. RequestInv' /\ Created' = Created /\ \A kind, e : SumApproved(kind, e)' = SumApproved(kind, e)
    BY <2>1, SameDecisions DEF InputInv
  <2>3. ReadingInv' /\ DetailsInv'
    BY <2>1 DEF InputInv, ReadingInv, DetailsInv, Paid, Read
  <2>4. DecidedInv'
    BY <2>1, <2>2 DEF InputInv, DecidedInv, Undisturbed, UpToDate
  <2> QED BY <2>2, <2>3, <2>4 DEF InputInv
<1>2. CASE BankNext /\ UNCHANGED inputVars
  <2>1. UNCHANGED vars
    BY <1>2 DEF BankNext, AddAccount, Demote, InsertAccount, CommitAccount, AbortAccount,
                CheckRun, OpenBatch, FillBatch, CommitBatch, AbortBatch, MarkSubmitted
  <2> QED BY <1>1, <1>2, <2>1
<1>3. CASE PayDayIdle
  BY <1>1, <1>3 DEF PayDayIdle, Idle
<1>4. CASE UNCHANGED payDayVars
  BY <1>1, <1>4 DEF payDayVars
<1>5. CASE InputNext
  BY <1>5, PayrollStepInputs, ReadStepInputs, PayItemInputs, RequestInputs DEF InputNext
<1> QED BY <1>2, <1>3, <1>4, <1>5 DEF PayDayNext

(***************************************************************************)
(* The accounts.                                                           *)
(***************************************************************************)

(* What a request that has ended made, and whom it met, stays. *)
Settled ==
  \A p, q \in Accounts : \A e, n :
    Made(p, e, n) => Made(p, e, n)' /\ (bpc[q] = "done" /\ q \in met[p] => q \in met'[p])

AccountsInv == AccountInv /\ MetInv /\ PrimaryInv

(* A request begins: it meets those for the same employee that are under   *)
(* way, and if it is for a primary account it will demote every row there  *)
(* is, so that every primary account keeps its witness.                    *)
LEMMA AddAccountStep ==
  ASSUME AccountsInv, NEW p \in Accounts, NEW e \in Emps, NEW n \in Numbers, NEW primary \in BOOLEAN,
         AddAccount(p, e, n, primary)
  PROVE  AccountsInv' /\ Settled
<1> DEFINE now == {q \in Accounts : Running(q) /\ want[q].emp = e}
<1> USE DEF AccountsInv
<1>1. /\ bpc[p] = "new" /\ UNCHANGED accounts
      /\ want' = [want EXCEPT ![p] = [emp |-> e, number |-> n, primary |-> primary]]
      /\ bpc' = [bpc EXCEPT ![p] = IF primary THEN "demote" ELSE "insert"]
      /\ demotes' = [demotes EXCEPT ![p] = IF primary THEN {m \in Numbers : accounts[e][m] # None} ELSE {}]
      /\ met' = [q \in Accounts |->
                  IF q = p THEN now ELSE IF q \in now THEN met[q] \cup {p} ELSE met[q]]
  BY DEF AddAccount, AccountGoto
<1>2. /\ want'[p] = [emp |-> e, number |-> n, primary |-> primary]
      /\ want'[p] \in Account /\ want'[p].emp = e /\ want'[p].primary = primary
      /\ bpc'[p] \in {"demote", "insert"} /\ ~ Running(p) /\ Running(p)'
      /\ demotes'[p] = IF primary THEN {m \in Numbers : accounts[e][m] # None} ELSE {}
  BY <1>1 DEF AccountInv, Account, Running
<1>3. \A q \in Accounts : q # p =>
        /\ want'[q] = want[q] /\ bpc'[q] = bpc[q] /\ demotes'[q] = demotes[q]
        /\ Running(q)' = Running(q)
        /\ met'[q] = IF q \in now THEN met[q] \cup {p} ELSE met[q]
  BY <1>1 DEF AccountInv, Running
<1>4. p \notin now /\ now \in SUBSET Accounts /\ met'[p] = now /\ met[p] = {}
  BY <1>1, <1>2 DEF MetInv
<1>5. \A q \in now : Running(q) /\ want[q].emp = e
  OBVIOUS
<1>6. \A q \in Accounts : Running(q) /\ want[q].emp = e => q \in now
  OBVIOUS
<1> HIDE DEF now
<1>7. AccountInv'
  BY <1>1, <1>2, <1>3 DEF AccountInv, Running
<1>8. MetInv'
  <2>1. met' \in [Accounts -> SUBSET Accounts]
    BY <1>1, <1>4 DEF MetInv
  <2>2. \A q \in Accounts : p \notin met[q]
    BY <1>4 DEF MetInv
  <2>3. \A q, r \in Accounts : q \in met'[r] <=> r \in met'[q]
    <3>1. \A q, r \in Accounts : q # p /\ r # p => (q \in met'[r] <=> q \in met[r])
      BY <1>3
    <3>2. \A r \in Accounts : r # p => (p \in met'[r] <=> r \in now)
      BY <1>3, <2>2
    <3>3. \A q, r \in Accounts : q \in met[r] <=> r \in met[q]
      BY DEF MetInv
    <3> QED BY <1>4, <3>1, <3>2, <3>3
  <2>4. ASSUME NEW q \in Accounts, bpc'[q] = "new"
        PROVE  met'[q] = {}
    <3>1. q # p /\ bpc[q] = "new"
      BY <1>2, <1>3, <2>4
    <3>2. q \notin now
      BY <1>5, <3>1 DEF Running
    <3> QED BY <1>3, <3>1, <3>2 DEF MetInv
  <2>5. ASSUME NEW q \in Accounts, NEW r \in Accounts, Running(q)', Running(r)', q # r,
               want'[q].emp = want'[r].emp
        PROVE  q \in met'[r]
    <3>1. CASE q # p /\ r # p
      <4>1. q \in met[r]
        BY <1>3, <2>5, <3>1 DEF MetInv
      <4> QED BY <1>3, <3>1, <4>1
    <3>2. CASE r = p
      <4>1. q \in now
        BY <1>2, <1>3, <1>6, <2>5, <3>2
      <4> QED BY <1>4, <3>2, <4>1
    <3>3. CASE q = p
      <4>1. r \in now
        BY <1>2, <1>3, <1>6, <2>5, <3>3
      <4> QED BY <1>4, <2>3, <3>3, <4>1
    <3> QED BY <3>1, <3>2, <3>3
  <2> QED BY <2>1, <2>3, <2>4, <2>5 DEF MetInv
<1>9. \A q \in Accounts : \A f, m : Made(q, f, m) => q # p /\ Made(q, f, m)'
  BY <1>1, <1>3 DEF Made
<1>10. \A q, r \in Accounts : r # p /\ q \in met[r] => q \in met'[r]
  BY <1>3
<1>11. PrimaryInv'
  <2>1. SUFFICES ASSUME NEW f \in Emps, NEW m \in Numbers, accounts[f][m] = "primary"
                 PROVE  \E q \in Accounts : Witness(q, f, m)'
    BY <1>1 DEF PrimaryInv
  <2>2. PICK q \in Accounts : Witness(q, f, m)
    BY <2>1 DEF PrimaryInv
  <2>3. q # p /\ Made(q, f, m)'
    BY <1>9, <2>2 DEF Witness
  <2>4. ASSUME NEW r \in Accounts, Running(r)', want'[r].emp = f, want'[r].primary, m \notin demotes'[r]
        PROVE  r \in met'[q]
    <3>1. r # p
      BY <1>2, <2>1, <2>4, NoAccountAssumption
    <3> QED BY <1>3, <1>10, <2>2, <2>3, <2>4, <3>1 DEF Witness
  <2>5. ASSUME NEW k \in Numbers \ {m}, accounts'[f][k] = "primary"
        PROVE  \E r \in Accounts : Made(r, f, k)' /\ r \in met'[q]
    BY <1>1, <1>9, <1>10, <2>2, <2>3, <2>5 DEF Witness
  <2> QED BY <2>3, <2>4, <2>5 DEF Witness
<1>12. Settled
  BY <1>9, <1>10 DEF Settled
<1> QED BY <1>7, <1>8, <1>11, <1>12

(* A statement of a request under way that changes no row anyone can see. *)
LEMMA MoveAccountStep ==
  ASSUME AccountsInv, NEW p \in Accounts, Demote(p) \/ InsertAccount(p)
  PROVE  AccountsInv' /\ Settled
<1> USE DEF AccountsInv
<1>1. /\ Running(p) /\ UNCHANGED <<want, demotes, accounts, met>>
      /\ \E l \in {"insert", "commit"} : bpc' = [bpc EXCEPT ![p] = l]
  BY DEF Demote, InsertAccount, AccountGoto, Running
<1>2. \A q \in Accounts :
        /\ Running(q)' = Running(q) /\ (bpc'[q] = "new") = (bpc[q] = "new")
        /\ (bpc'[q] = "done") = (bpc[q] = "done")
  BY <1>1 DEF AccountInv, Running
<1>3. AccountInv'
  BY <1>1, <1>2 DEF AccountInv
<1>4. MetInv'
  BY <1>1, <1>2 DEF MetInv
<1>5. \A q \in Accounts : \A e, n : Made(q, e, n)' = Made(q, e, n)
  BY <1>1, <1>2 DEF Made
<1>6. \A q \in Accounts, e \in Emps, n \in Numbers : Witness(q, e, n) => Witness(q, e, n)'
  BY <1>1, <1>2, <1>5 DEF Witness
<1>7. PrimaryInv'
  BY <1>1, <1>6 DEF PrimaryInv
<1>8. Settled
  BY <1>1, <1>5 DEF Settled
<1> QED BY <1>3, <1>4, <1>7, <1>8

(* A request fails: nothing was written, and those it met forget it. *)
LEMMA AbortAccountStep ==
  ASSUME AccountsInv, NEW p \in Accounts, AbortAccount(p)
  PROVE  AccountsInv' /\ Settled
<1> USE DEF AccountsInv
<1>1. /\ Running(p) /\ UNCHANGED accounts
      /\ bpc' = [bpc EXCEPT ![p] = "done"] /\ want' = [want EXCEPT ![p] = None]
      /\ demotes' = [demotes EXCEPT ![p] = {}]
      /\ met' = [q \in Accounts |-> IF q = p THEN {} ELSE met[q] \ {p}]
  BY DEF AbortAccount, AccountGoto
<1>2. ~ Running(p)' /\ bpc'[p] = "done"
  BY <1>1 DEF AccountInv, Running
<1>3. \A q \in Accounts : q # p =>
        /\ want'[q] = want[q] /\ bpc'[q] = bpc[q] /\ demotes'[q] = demotes[q]
        /\ Running(q)' = Running(q) /\ met'[q] = met[q] \ {p}
  BY <1>1 DEF AccountInv, Running
<1>4. AccountInv'
  BY <1>1, <1>2, <1>3 DEF AccountInv
<1>5. MetInv'
  <2>1. met' \in [Accounts -> SUBSET Accounts]
    BY <1>1 DEF MetInv
  <2>2. \A q, r \in Accounts : q \in met'[r] <=> q # p /\ r # p /\ q \in met[r]
    BY <1>1
  <2>3. \A q, r \in Accounts : q \in met'[r] <=> r \in met'[q]
    BY <2>2 DEF MetInv
  <2>4. \A q \in Accounts : bpc'[q] = "new" => met'[q] = {}
    BY <1>2, <1>3 DEF MetInv
  <2>5. ASSUME NEW q \in Accounts, NEW r \in Accounts, Running(q)', Running(r)', q # r,
               want'[q].emp = want'[r].emp
        PROVE  q \in met'[r]
    <3>1. q # p /\ r # p
      BY <1>2, <2>5
    <3>2. q \in met[r]
      BY <1>3, <2>5, <3>1 DEF MetInv
    <3> QED BY <2>2, <3>1, <3>2
  <2> QED BY <2>1, <2>3, <2>4, <2>5 DEF MetInv
<1>6. \A q \in Accounts : \A e, n : Made(q, e, n) => q # p /\ Made(q, e, n)'
  BY <1>1, <1>3 DEF Made, Running
<1>7. \A q, r \in Accounts : q # p /\ r # p /\ q \in met[r] => q \in met'[r]
  BY <1>3
<1>8. PrimaryInv'
  <2>1. SUFFICES ASSUME NEW f \in Emps, NEW m \in Numbers, accounts[f][m] = "primary"
                 PROVE  \E q \in Accounts : Witness(q, f, m)'
    BY <1>1 DEF PrimaryInv
  <2>2. PICK q \in Accounts : Witness(q, f, m)
    BY <2>1 DEF PrimaryInv
  <2>3. q # p /\ Made(q, f, m)'
    BY <1>6, <2>2 DEF Witness
  <2>4. ASSUME NEW r \in Accounts, Running(r)', want'[r].emp = f, want'[r].primary, m \notin demotes'[r]
        PROVE  r \in met'[q]
    <3>1. r # p
      BY <1>2, <2>4
    <3> QED BY <1>3, <1>7, <2>2, <2>3, <2>4, <3>1 DEF Witness
  <2>5. ASSUME NEW k \in Numbers \ {m}, accounts'[f][k] = "primary"
        PROVE  \E r \in Accounts : Made(r, f, k)' /\ r \in met'[q]
    BY <1>1, <1>6, <1>7, <2>2, <2>3, <2>5 DEF Witness
  <2> QED BY <2>3, <2>4, <2>5 DEF Witness
<1>9. Settled
  <2>1. \A q \in Accounts : bpc[q] = "done" => q # p
    BY <1>1 DEF Running
  <2> QED BY <1>6, <1>7, <2>1 DEF Settled
<1> QED BY <1>4, <1>5, <1>8, <1>9

(* A request commits.  A row that stays primary is one it did not demote,  *)
(* whose witness it has met: each vouches for the other.                   *)
LEMMA CommitAccountStep ==
  ASSUME AccountsInv, NEW p \in Accounts, CommitAccount(p)
  PROVE  AccountsInv' /\ Settled
<1> USE DEF AccountsInv
<1>1. PICK e \in Emps, n \in Numbers, primary \in BOOLEAN :
        want[p] = [emp |-> e, number |-> n, primary |-> primary]
  BY DEF CommitAccount, AccountInv, Account, Running
<1>2. /\ bpc[p] = "commit" /\ Running(p) /\ UNCHANGED <<want, met>>
      /\ bpc' = [bpc EXCEPT ![p] = "done"] /\ demotes' = [demotes EXCEPT ![p] = {}]
      /\ want[p].emp = e /\ want[p].number = n /\ want[p].primary = primary
  BY <1>1 DEF CommitAccount, AccountGoto, Running
<1>3. /\ bpc'[p] = "done" /\ ~ Running(p)'
      /\ \A q \in Accounts : q # p =>
           /\ bpc'[q] = bpc[q] /\ demotes'[q] = demotes[q] /\ Running(q)' = Running(q)
  BY <1>2 DEF AccountInv, Running
<1>4. /\ accounts' \in [Emps -> [Numbers -> {"primary", "other", None}]]
      /\ \A f \in Emps : f # e => accounts'[f] = accounts[f]
      /\ \A m \in Numbers : m # n /\ accounts'[e][m] = "primary" =>
            m \notin demotes[p] /\ accounts[e][m] = "primary"
      /\ accounts'[e][n] = "primary" => primary
  <2>1. PICK row : row = [m \in Numbers |->
               CASE m = n -> Rank(p)
                 [] m \in demotes[p] \ {n} -> "other"
                 [] OTHER -> accounts[e][m]]
    OBVIOUS
  <2>2. accounts' = [accounts EXCEPT ![e] = row]
    BY <1>2, <2>1 DEF CommitAccount, AccountInv
  <2>3. Rank(p) = IF primary THEN "primary" ELSE "other"
    BY <1>2 DEF Rank
  <2>4. /\ row[n] = Rank(p)
        /\ \A m \in Numbers : m # n /\ m \in demotes[p] => row[m] = "other"
        /\ \A m \in Numbers : m # n /\ m \notin demotes[p] => row[m] = accounts[e][m]
        /\ DOMAIN row = Numbers /\ row = [m \in Numbers |-> row[m]]
    BY <2>1
  <2>5. row \in [Numbers -> {"primary", "other", None}]
    BY <2>3, <2>4 DEF AccountInv
  <2> QED BY <2>2, <2>3, <2>4, <2>5 DEF AccountInv
<1>5. AccountInv'
  BY <1>2, <1>3, <1>4 DEF AccountInv
<1>6. MetInv'
  BY <1>2, <1>3 DEF MetInv
<1>7. \A q \in Accounts : \A f, m : Made(q, f, m) => q # p /\ Made(q, f, m)'
  BY <1>2, <1>3 DEF Made
<1>8. primary => Made(p, e, n)'
  BY <1>1, <1>2, <1>3 DEF Made
(* What a witness says of the requests under way still holds. *)
<1>9. ASSUME NEW f \in Emps, NEW m \in Numbers, NEW q \in Accounts, Witness(q, f, m)
      PROVE  \A r \in Accounts :
               (Running(r)' /\ want'[r].emp = f /\ want'[r].primary /\ m \notin demotes'[r]) => r \in met'[q]
  BY <1>2, <1>3, <1>9 DEF Witness
(* A primary account other than n that is still there has met p. *)
<1>10. ASSUME NEW m \in Numbers, m # n, accounts'[e][m] = "primary", primary
       PROVE  \E q \in Accounts : Witness(q, e, m) /\ p \in met[q] /\ q \in met[p]
  <2>1. accounts[e][m] = "primary" /\ m \notin demotes[p]
    BY <1>4, <1>10
  <2>2. PICK q \in Accounts : Witness(q, e, m)
    BY <2>1 DEF PrimaryInv
  <2>3. p \in met[q]
    BY <1>2, <1>10, <2>1, <2>2 DEF Witness
  <2>4. q \in met[p]
    BY <2>3 DEF MetInv
  <2> QED BY <2>2, <2>3, <2>4
<1>11. PrimaryInv'
  <2>1. SUFFICES ASSUME NEW f \in Emps, NEW m \in Numbers, accounts'[f][m] = "primary"
                 PROVE  \E q \in Accounts : Witness(q, f, m)'
    BY DEF PrimaryInv
  <2>2. CASE f = e /\ m = n
    <3>1. primary
      BY <1>4, <2>1, <2>2
    <3>2. ASSUME NEW r \in Accounts, Running(r)', want'[r].emp = e
          PROVE  r \in met'[p]
      BY <1>2, <1>3, <3>2 DEF MetInv
    <3>3. ASSUME NEW k \in Numbers \ {n}, accounts'[e][k] = "primary"
          PROVE  \E r \in Accounts : Made(r, e, k)' /\ r \in met'[p]
      <4>1. PICK q \in Accounts : Witness(q, e, k) /\ q \in met[p]
        BY <1>10, <3>1, <3>3
      <4> QED BY <1>2, <1>7, <4>1 DEF Witness
    <3>4. Witness(p, e, n)'
      BY <1>8, <3>1, <3>2, <3>3 DEF Witness
    <3> QED BY <2>2, <3>4
  <2>3. CASE f = e /\ m # n /\ primary
    <3>1. PICK q \in Accounts : Witness(q, e, m) /\ p \in met[q]
      BY <1>10, <2>1, <2>3
    <3>2. Made(q, e, m)'
      BY <1>7, <3>1 DEF Witness
    <3>3. ASSUME NEW k \in Numbers \ {m}, accounts'[e][k] = "primary"
          PROVE  \E r \in Accounts : Made(r, e, k)' /\ r \in met'[q]
      <4>1. CASE k = n
        BY <1>2, <1>8, <2>3, <3>1, <4>1
      <4>2. CASE k # n
        <5>1. accounts[e][k] = "primary"
          BY <1>4, <3>3, <4>2
        <5> QED BY <1>2, <1>7, <3>1, <5>1 DEF Witness
      <4> QED BY <4>1, <4>2
    <3>4. Witness(q, e, m)'
      BY <1>9, <3>1, <3>2, <3>3 DEF Witness
    <3> QED BY <2>3, <3>4
  <2>4. CASE f # e \/ ~ primary
    <3>1. \A k \in Numbers : accounts'[f][k] = "primary" => accounts[f][k] = "primary"
      BY <1>4, <2>4
    <3>2. PICK q \in Accounts : Witness(q, f, m)
      BY <2>1, <3>1 DEF PrimaryInv
    <3>3. Made(q, f, m)'
      BY <1>7, <3>2 DEF Witness
    <3>4. ASSUME NEW k \in Numbers \ {m}, accounts'[f][k] = "primary"
          PROVE  \E r \in Accounts : Made(r, f, k)' /\ r \in met'[q]
      BY <1>2, <1>7, <3>1, <3>2, <3>4 DEF Witness
    <3>5. Witness(q, f, m)'
      BY <1>9, <3>2, <3>3, <3>4 DEF Witness
    <3> QED BY <3>5
  <2> QED BY <2>2, <2>3, <2>4
<1>12. Settled
  BY <1>2, <1>7 DEF Settled
<1> QED BY <1>5, <1>6, <1>11, <1>12

(***************************************************************************)
(* The transfers.                                                          *)
(***************************************************************************)

(* The lines of an approved run. *)
LEMMA LinesOfRun ==
  ASSUME Inv, Books, NEW r \in approved
  PROVE  /\ {line.emp : line \in Lines(r)} = Emps
         /\ \A line \in Lines(r) : line.cents = items[r][line.emp].net /\ line.cents \in Nat
         /\ \A x, y \in Lines(r) : x.emp = y.emp /\ x # y =>
              /\ x.emp \in Emps /\ x.account # y.account
              /\ x.account \in Primaries(x.emp) /\ y.account \in Primaries(x.emp)
<1> DEFINE Of(e) == IF Primaries(e) = {} THEN {None} ELSE Primaries(e)
<1>1. \A e \in Emps : items[r][e].net \in Nat
  <2>1. r \in Calcs /\ Paid(r) = Emps
    BY DEF Inv, ShapeInv, Books, ItemInv
  <2> QED BY <2>1 DEF Books, ItemInv, Item, Paid
<1>2. \A line : line \in Lines(r) <=>
        \E e \in Emps : \E n \in Of(e) : line = [emp |-> e, account |-> n, cents |-> items[r][e].net]
  BY DEF Lines
<1>3. \A e \in Emps : \E n : n \in Of(e)
  OBVIOUS
<1>4. \A e \in Emps : \A x, y \in Of(e) : x # y => x \in Primaries(e) /\ y \in Primaries(e)
  OBVIOUS
<1> HIDE DEF Of
<1>5. \A line \in Lines(r) :
        /\ line.emp \in Emps /\ line.account \in Of(line.emp) /\ line.cents = items[r][line.emp].net
        /\ line = [emp |-> line.emp, account |-> line.account, cents |-> items[r][line.emp].net]
  BY <1>2
<1>6. \A e \in Emps : \E line \in Lines(r) : line.emp = e
  <2> SUFFICES ASSUME NEW e \in Emps PROVE \E line \in Lines(r) : line.emp = e
    OBVIOUS
  <2>1. PICK n : n \in Of(e)
    BY <1>3
  <2>2. PICK line : line = [emp |-> e, account |-> n, cents |-> items[r][e].net]
    OBVIOUS
  <2>3. line \in Lines(r)
    BY <1>2, <2>1, <2>2
  <2> QED BY <2>2, <2>3
<1>7. {line.emp : line \in Lines(r)} = Emps
  BY <1>5, <1>6
<1>8. \A x, y \in Lines(r) : x.emp = y.emp /\ x # y => x.account # y.account
  BY <1>5
<1> QED BY <1>1, <1>4, <1>5, <1>7, <1>8

BatchesInv == BatchInv /\ LinesInv /\ TwiceInv

(* A step that leaves the batches alone. *)
LEMMA BatchesStay ==
  ASSUME Inv, BatchesInv, [Next]_vars, Settled, UNCHANGED batchVars
  PROVE  BatchesInv'
<1> USE DEF BatchesInv
<1>1. /\ UNCHANGED <<tpc, batch, transfers, batches, submitted>>
      /\ \A b \in Batches : Written(b)' = Written(b)
  BY DEF batchVars, Written
<1>2. /\ approved \subseteq approved'
      /\ \A r \in approved : items'[r] = items[r] /\ total'[r] = total[r]
  BY ApprovedStay
<1>3. \A b \in Batches : tpc[b] \in {"open", "fill"} \/ Written(b) => batch[b].run \in approved
  BY DEF BatchInv
<1>4. BatchInv'
  <2>1. \A b \in Batches : tpc[b] \in {"open", "fill"} \/ Written(b) =>
          batch[b] \in [run : approved', total : Nat]
    BY <1>2 DEF BatchInv
  <2>2. \A b \in Batches : tpc[b] = "fill" \/ Written(b) => batch[b].total = total'[batch[b].run].net
    BY <1>2, <1>3 DEF BatchInv
  <2> QED BY <1>1, <2>1, <2>2 DEF BatchInv
<1>5. LinesInv'
  BY <1>1, <1>2, <1>3 DEF LinesInv
<1>6. TwiceInv'
  <2>1. SUFFICES ASSUME NEW b \in Batches, Written(b), NEW x \in transfers[b], NEW y \in transfers[b],
                        x.emp = y.emp, x # y
                 PROVE  \E p, q \in Accounts :
                          p \in met'[q] /\ Made(p, x.emp, x.account)' /\ Made(q, y.emp, y.account)'
    BY <1>1 DEF TwiceInv
  <2>2. PICK p \in Accounts, q \in Accounts :
          p \in met[q] /\ Made(p, x.emp, x.account) /\ Made(q, y.emp, y.account)
    BY <2>1 DEF TwiceInv
  <2>3. p \in met'[q] /\ Made(p, x.emp, x.account)' /\ Made(q, y.emp, y.account)'
    BY <2>2 DEF Settled, Made
  <2> QED BY <2>3
<1> QED BY <1>4, <1>5, <1>6

(* A step of batch b, which was not committed: the other batches stay.     *)
LEMMA OneBatch ==
  ASSUME BatchesInv, NEW b \in Batches, NEW l \in {"open", "fill", "commit", "done"}, tpc[b] # "done",
         NEW row, NEW lines,
         tpc' = [tpc EXCEPT ![b] = l], batch' = [batch EXCEPT ![b] = row],
         transfers' = [transfers EXCEPT ![b] = lines],
         batches' = batches \/ (batches' = batches \cup {b} /\ l = "done"),
         UNCHANGED <<submitted, accountVars, vars>>,
         l # "done" \/ b \in batches' => row \in [run : approved, total : Nat],
         l \in {"fill", "commit"} \/ b \in batches' => row.total = total[row.run].net,
         l = "commit" \/ b \in batches' =>
           /\ {line.emp : line \in lines} = Emps
           /\ \A line \in lines : line.cents = items[row.run][line.emp].net /\ line.cents > 0
           /\ \A x, y \in lines : x.emp = y.emp /\ x # y =>
                \E p, q \in Accounts : p \in met[q] /\ Made(p, x.emp, x.account) /\ Made(q, y.emp, y.account)
  PROVE  BatchesInv'
<1> USE DEF BatchesInv
<1>1. b \notin batches
  BY DEF BatchInv
<1>2. UNCHANGED <<items, total, approved, met, bpc, want>>
  BY DEF accountVars, vars, runVars
<1>3. /\ tpc'[b] = l /\ batch'[b] = row /\ transfers'[b] = lines
      /\ \A d \in Batches : d # b =>
           /\ tpc'[d] = tpc[d] /\ batch'[d] = batch[d] /\ transfers'[d] = transfers[d]
           /\ Written(d)' = Written(d)
      /\ Written(b)' => l = "commit" \/ b \in batches'
  BY DEF BatchInv, Written
<1>4. BatchInv'
  <2>1. /\ tpc' \in [Batches -> {"new", "open", "fill", "commit", "done"}]
        /\ batch' = [d \in Batches |-> batch'[d]] /\ transfers' = [d \in Batches |-> transfers'[d]]
        /\ batches' \subseteq {d \in Batches : tpc'[d] = "done"}
        /\ submitted' \subseteq batches'
    BY <1>1, <1>3 DEF BatchInv
  <2>2. \A d \in Batches : tpc'[d] \in {"open", "fill"} \/ Written(d)' =>
          batch'[d] \in [run : approved', total : Nat]
    BY <1>2, <1>3 DEF BatchInv
  <2>3. \A d \in Batches : tpc'[d] = "fill" \/ Written(d)' => batch'[d].total = total'[batch'[d].run].net
    BY <1>2, <1>3 DEF BatchInv
  <2> QED BY <2>1, <2>2, <2>3 DEF BatchInv
<1>5. LinesInv'
  BY <1>2, <1>3 DEF LinesInv
<1>6. TwiceInv'
  <2>1. \A p, e, n : Made(p, e, n)' = Made(p, e, n)
    BY <1>2 DEF Made
  <2> QED BY <1>2, <1>3, <2>1 DEF TwiceInv
<1> QED BY <1>4, <1>5, <1>6

(* Two lines of one employee are for accounts that requests which met made *)
(* primary.                                                                *)
LEMMA PrimariesMet ==
  ASSUME AccountsInv, NEW e \in Emps, NEW n \in Primaries(e), NEW m \in Primaries(e), n # m
  PROVE  \E p, q \in Accounts : p \in met[q] /\ Made(p, e, n) /\ Made(q, e, m)
<1>1. /\ n \in Numbers /\ accounts[e][n] = "primary"
      /\ m \in Numbers /\ accounts[e][m] = "primary"
  BY DEF Primaries
<1>2. PICK p \in Accounts : Witness(p, e, n)
  BY <1>1 DEF AccountsInv, PrimaryInv
<1>3. PICK q \in Accounts : Made(q, e, m) /\ q \in met[p]
  BY <1>1, <1>2 DEF Witness
<1>4. p \in met[q]
  BY <1>3 DEF AccountsInv, MetInv
<1> QED BY <1>2, <1>3, <1>4 DEF Witness

LEMMA CheckRunStep ==
  ASSUME Inv, BatchesInv, NEW b \in Batches, NEW r \in Calcs, CheckRun(b, r)
  PROVE  BatchesInv'
<1>1. tpc[b] = "new" /\ b \notin batches /\ transfers' = [transfers EXCEPT ![b] = transfers[b]]
  BY DEF CheckRun, BatchesInv, BatchInv
<1>2. CASE r \in approved
  <2>1. PICK row : row = [run |-> r, total |-> 0]
    OBVIOUS
  <2>2. /\ tpc' = [tpc EXCEPT ![b] = "open"] /\ batch' = [batch EXCEPT ![b] = row]
        /\ UNCHANGED <<batches, submitted, accountVars, vars>>
        /\ row \in [run : approved, total : Nat]
    BY <1>2, <2>1 DEF CheckRun, BatchGoto
  <2> QED BY <1>1, <2>2, OneBatch
<1>3. CASE r \notin approved
  <2>1. /\ tpc' = [tpc EXCEPT ![b] = "done"] /\ batch' = [batch EXCEPT ![b] = None]
        /\ UNCHANGED <<batches, submitted, accountVars, vars>>
    BY <1>3 DEF CheckRun, BatchGoto
  <2> QED BY <1>1, <2>1, OneBatch
<1> QED BY <1>2, <1>3

LEMMA OpenBatchStep ==
  ASSUME Inv, Books, BatchesInv, NEW b \in Batches, OpenBatch(b)
  PROVE  BatchesInv'
<1>1. /\ tpc[b] = "open" /\ b \notin batches /\ transfers' = [transfers EXCEPT ![b] = transfers[b]]
      /\ batch[b] \in [run : approved, total : Nat]
  BY DEF OpenBatch, BatchesInv, BatchInv
<1>2. PICK r \in approved : r = batch[b].run
  BY <1>1
<1>3. r \in Calcs /\ Paid(r) = Emps
  BY DEF Inv, ShapeInv, Books, ItemInv
<1>4. SumFunction([e \in Emps |-> items[r][e].net]) = total[r].net
  <2>1. Nets(r) = [e \in Emps |-> items[r][e].net]
    BY <1>3 DEF Nets
  <2> QED BY <1>3, <2>1 DEF Books, TotalInv
<1>5. total[r].net \in Nat
  BY <1>3 DEF Books, ItemInv, Item
<1>6. PICK row : row = [batch[b] EXCEPT !.total = total[r].net]
  OBVIOUS
<1>7. row \in [run : approved, total : Nat] /\ row.run = r /\ row.total = total[r].net
  BY <1>1, <1>2, <1>5, <1>6
<1>8. /\ tpc' = [tpc EXCEPT ![b] = "fill"]
      /\ UNCHANGED <<batches, submitted, accountVars, vars>>
      /\ batch' = [batch EXCEPT ![b].total = total[r].net]
  BY <1>2, <1>4 DEF OpenBatch, BatchGoto
<1>9. batch' = [batch EXCEPT ![b] = row]
  BY <1>6, <1>8
<1> QED BY <1>1, <1>7, <1>8, <1>9, OneBatch

(* The lines are those of one snapshot of the items and the accounts. *)
LEMMA FillBatchStep ==
  ASSUME Inv, Books, AccountsInv, BatchesInv, NEW b \in Batches, FillBatch(b)
  PROVE  BatchesInv'
<1>1. /\ tpc[b] = "fill" /\ b \notin batches
      /\ batch[b] \in [run : approved, total : Nat] /\ batch[b].total = total[batch[b].run].net
      /\ UNCHANGED <<batches, submitted, accountVars, vars>>
      /\ transfers = [transfers EXCEPT ![b] = transfers[b]] /\ batch = [batch EXCEPT ![b] = batch[b]]
  BY DEF FillBatch, BatchesInv, BatchInv
<1>2. PICK r \in approved : r = batch[b].run
  BY <1>1
<1>3. PICK lines : lines = Lines(r)
  OBVIOUS
<1>4. CASE \E line \in lines : line.cents = 0
  <2>1. /\ tpc' = [tpc EXCEPT ![b] = "done"] /\ batch' = [batch EXCEPT ![b] = None]
        /\ transfers' = [transfers EXCEPT ![b] = transfers[b]]
    BY <1>1, <1>2, <1>3, <1>4 DEF FillBatch, BatchGoto
  <2> QED BY <1>1, <2>1, OneBatch
<1>5. CASE ~ \E line \in lines : line.cents = 0
  <2>1. /\ tpc' = [tpc EXCEPT ![b] = "commit"] /\ batch' = [batch EXCEPT ![b] = batch[b]]
        /\ transfers' = [transfers EXCEPT ![b] = lines]
    BY <1>1, <1>2, <1>3, <1>5 DEF FillBatch, BatchGoto
  <2>2. /\ {line.emp : line \in lines} = Emps
        /\ \A line \in lines : line.cents = items[r][line.emp].net /\ line.cents \in Nat
        /\ \A x, y \in lines : x.emp = y.emp /\ x # y =>
              /\ x.emp \in Emps /\ x.account # y.account
              /\ x.account \in Primaries(x.emp) /\ y.account \in Primaries(x.emp)
    BY <1>3, LinesOfRun
  <2>3. \A line \in lines : line.cents = items[r][line.emp].net /\ line.cents > 0
    BY <1>5, <2>2
  <2>4. \A x, y \in lines : x.emp = y.emp /\ x # y =>
          \E p, q \in Accounts : p \in met[q] /\ Made(p, x.emp, x.account) /\ Made(q, y.emp, y.account)
    BY <2>2, PrimariesMet
  <2> QED BY <1>1, <1>2, <2>1, <2>2, <2>3, <2>4, OneBatch
<1> QED BY <1>4, <1>5

LEMMA CommitBatchStep ==
  ASSUME BatchesInv, NEW b \in Batches, CommitBatch(b)
  PROVE  BatchesInv'
<1>1. /\ tpc[b] = "commit" /\ Written(b) /\ tpc' = [tpc EXCEPT ![b] = "done"]
      /\ batches' = batches \cup {b}
      /\ UNCHANGED <<submitted, accountVars, vars>>
      /\ transfers' = [transfers EXCEPT ![b] = transfers[b]] /\ batch' = [batch EXCEPT ![b] = batch[b]]
  BY DEF CommitBatch, BatchGoto, Written, BatchesInv, BatchInv
<1>2. /\ batch[b] \in [run : approved, total : Nat] /\ batch[b].total = total[batch[b].run].net
  BY <1>1 DEF BatchesInv, BatchInv
<1>3. /\ {line.emp : line \in transfers[b]} = Emps
      /\ \A line \in transfers[b] : line.cents = items[batch[b].run][line.emp].net /\ line.cents > 0
  BY <1>1 DEF BatchesInv, LinesInv
<1>4. \A x, y \in transfers[b] : x.emp = y.emp /\ x # y =>
        \E p, q \in Accounts : p \in met[q] /\ Made(p, x.emp, x.account) /\ Made(q, y.emp, y.account)
  BY <1>1 DEF BatchesInv, TwiceInv
<1> QED BY <1>1, <1>2, <1>3, <1>4, OneBatch

LEMMA AbortBatchStep ==
  ASSUME BatchesInv, NEW b \in Batches, AbortBatch(b)
  PROVE  BatchesInv'
<1>1. /\ tpc[b] # "done" /\ b \notin batches /\ tpc' = [tpc EXCEPT ![b] = "done"]
      /\ batch' = [batch EXCEPT ![b] = None] /\ transfers' = [transfers EXCEPT ![b] = {}]
      /\ UNCHANGED <<batches, submitted, accountVars, vars>>
  BY DEF AbortBatch, BatchGoto, BatchesInv, BatchInv
<1> QED BY <1>1, OneBatch

LEMMA MarkSubmittedStep ==
  ASSUME BatchesInv, NEW b \in Batches, MarkSubmitted(b)
  PROVE  BatchesInv'
<1>1. /\ submitted' \subseteq batches
      /\ UNCHANGED <<tpc, batch, transfers, batches, met, bpc, want, items, total, approved>>
  BY DEF MarkSubmitted, BatchesInv, BatchInv, accountVars, vars, runVars
<1>2. BatchInv' /\ LinesInv'
  BY <1>1 DEF BatchesInv, BatchInv, LinesInv, Written
<1>3. TwiceInv'
  <2>1. \A p, e, n : Made(p, e, n)' = Made(p, e, n)
    BY <1>1 DEF Made
  <2> QED BY <1>1, <2>1 DEF BatchesInv, TwiceInv, Written
<1> QED BY <1>2, <1>3 DEF BatchesInv

(***************************************************************************)
(* The theorems.                                                           *)
(***************************************************************************)
LEMMA StepBank ==
  ASSUME Inv, Books, InputInv, AccountsInv, BatchesInv, [PayDayNext]_payDayVars
  PROVE  AccountsInv' /\ BatchesInv'
<1>1. [Next]_vars
  BY StepPayroll
<1>2. CASE UNCHANGED bankVars
  <2>1. UNCHANGED <<bpc, want, demotes, accounts, met>> /\ UNCHANGED batchVars
    BY <1>2 DEF bankVars, accountVars
  <2>2. /\ \A p : Running(p)' = Running(p)
        /\ \A p, e, n : Made(p, e, n)' = Made(p, e, n)
    BY <2>1 DEF Running, Made
  <2>3. Settled
    BY <2>1, <2>2 DEF Settled
  <2>4. AccountInv' /\ MetInv'
    BY <2>1, <2>2 DEF AccountsInv, AccountInv, MetInv
  <2>5. \A p, e, n : Witness(p, e, n)' = Witness(p, e, n)
    BY <2>1, <2>2 DEF Witness
  <2>6. PrimaryInv'
    BY <2>1, <2>5 DEF AccountsInv, PrimaryInv
  <2> QED BY <1>1, <2>1, <2>3, <2>4, <2>6, BatchesStay DEF AccountsInv
<1>3. ASSUME NEW p \in Accounts,
             \/ \E e \in Emps, n \in Numbers, primary \in BOOLEAN : AddAccount(p, e, n, primary)
             \/ Demote(p) \/ InsertAccount(p) \/ CommitAccount(p) \/ AbortAccount(p)
      PROVE  AccountsInv' /\ BatchesInv'
  <2>1. AccountsInv' /\ Settled
    BY <1>3, AddAccountStep, MoveAccountStep, CommitAccountStep, AbortAccountStep
  <2>2. UNCHANGED batchVars
    BY <1>3 DEF AddAccount, Demote, InsertAccount, CommitAccount, AbortAccount
  <2> QED BY <1>1, <2>1, <2>2, BatchesStay
<1>4. ASSUME NEW b \in Batches,
             \/ \E r \in Calcs : CheckRun(b, r)
             \/ OpenBatch(b) \/ FillBatch(b) \/ CommitBatch(b) \/ AbortBatch(b) \/ MarkSubmitted(b)
      PROVE  AccountsInv' /\ BatchesInv'
  <2>1. BatchesInv'
    BY <1>4, CheckRunStep, OpenBatchStep, FillBatchStep, CommitBatchStep, AbortBatchStep, MarkSubmittedStep
  <2>2. UNCHANGED accountVars
    BY <1>4 DEF CheckRun, OpenBatch, FillBatch, CommitBatch, AbortBatch, MarkSubmitted
  <2>3. /\ \A p : Running(p)' = Running(p)
        /\ \A p, e, n : Made(p, e, n)' = Made(p, e, n)
    BY <2>2 DEF Running, Made, accountVars
  <2>4. AccountInv' /\ MetInv'
    BY <2>2, <2>3 DEF AccountsInv, AccountInv, MetInv, accountVars
  <2>5. \A p, e, n : Witness(p, e, n)' = Witness(p, e, n)
    BY <2>2, <2>3 DEF Witness, accountVars
  <2>6. PrimaryInv'
    BY <2>2, <2>5 DEF AccountsInv, PrimaryInv, accountVars
  <2> QED BY <2>1, <2>4, <2>6 DEF AccountsInv
<1> QED BY <1>2, <1>3, <1>4 DEF PayDayNext, BankNext, PayDayIdle, payDayVars

LEMMA StepPayDay == PayDayInv /\ [PayDayNext]_payDayVars => PayDayInv'
<1> SUFFICES ASSUME PayDayInv, [PayDayNext]_payDayVars PROVE PayDayInv' OBVIOUS
<1>1. Inv /\ Books /\ InputInv /\ AccountsInv /\ BatchesInv
  BY DEF PayDayInv, BankInv, AccountsInv, BatchesInv
<1>2. [Next]_vars
  BY <1>1, StepPayroll
<1>3. Inv' /\ Books'
  BY <1>1, <1>2, StepInv, StepBooks
<1>4. InputInv'
  BY <1>1, StepInputs
<1>5. AccountsInv' /\ BatchesInv'
  BY <1>1, StepBank
<1> QED BY <1>3, <1>4, <1>5 DEF PayDayInv, BankInv, AccountsInv, BatchesInv

LEMMA PayDayInvariant == PayDaySpec => []PayDayInv
BY InitPayDay, StepPayDay, PTL DEF PayDaySpec

(* What an employee takes home is computed from the tables as they change; *)
(* the payroll is still the one of module Payroll, whose set of possible   *)
(* earnings leaves nothing out.                                            *)
THEOREM IsPayrollHolds == PayDaySpec => IsPayroll
<1>1. PayDayInit => Init
  BY DEF PayDayInit
<1>2. PayDayInv /\ [PayDayNext]_payDayVars => [UNCHANGED vars \/ Next]_vars
  BY StepPayroll DEF PayDayInv
<1> QED BY <1>1, <1>2, PayDayInvariant, PTL DEF PayDaySpec, IsPayroll

(* So every theorem about the payroll holds of the whole: the history of   *)
(* the month, the totals and the deductions.                               *)
THEOREM PayDayKeepsTheBooks ==
  PayDaySpec => MonthSpec /\ []RunAddsUp /\ []OnlyApprovedDeducted
<1>1. PayDayInit => Init
  BY DEF PayDayInit
<1>2. PayDayInv /\ [PayDayNext]_payDayVars => [Next]_vars
  BY StepPayroll DEF PayDayInv
<1>3. PayDaySpec => Spec
  BY <1>1, <1>2, PayDayInvariant, PTL DEF PayDaySpec, Spec
<1> QED BY <1>3, ImplementsPayMonth, RunAddsUpHolds, OnlyApprovedDeductedHolds

(* What is stored was written by a request that went through all of its    *)
(* statements: a payslip has its details, a batch its lines.               *)
THEOREM TablesTypedHolds == PayDaySpec => []TablesTyped
<1>1. PayDayInv => TablesTyped
  <2> SUFFICES ASSUME PayDayInv PROVE TablesTyped OBVIOUS
  <2>0. InputInv /\ AccountInv /\ BatchInv /\ LinesInv
    BY DEF PayDayInv, BankInv
  <2>1. \A q \in Requests : request[q] = None \/
          request[q] \in [kind : {"leave", "overtime"}, emp : Emps, sum : Minutes \cup Days,
                          status : {"pending", "approved", "rejected"}]
    BY <2>0 DEF InputInv, RequestInv, LeaveRow, OvertimeRow
  <2>2. /\ \A c \in Calcs : reading[c] # None => pc[c] = "items" /\ items[c][reading[c].emp] = None
        /\ \A c \in Calcs, e \in Emps : details[c][e] = None <=> items[c][e] = None
    BY <2>0 DEF InputInv, ReadingInv, DetailsInv
  <2>3. /\ accounts \in [Emps -> [Numbers -> {"primary", "other", None}]]
        /\ \A p \in Accounts : Running(p) => want[p] \in [emp : Emps, number : Numbers, primary : BOOLEAN]
    BY <2>0 DEF AccountInv, Account
  <2>4. \A b \in batches : b \in Batches /\ tpc[b] = "done" /\ (transfers[b] # {} \/ Emps = {})
    <3>1. \A b \in batches : b \in Batches /\ tpc[b] = "done" /\ Written(b)
      BY <2>0 DEF BatchInv, Written
    <3> QED BY <2>0, <3>1 DEF LinesInv
  <2>5. submitted \subseteq batches
    BY <2>0 DEF BatchInv
  <2> QED BY <2>1, <2>2, <2>3, <2>4, <2>5 DEF TablesTyped
<1> QED BY <1>1, PayDayInvariant, PTL

LEMMA StoredHasDetails ==
  ASSUME PayDayInv, NEW r \in runs, NEW e \in Emps
  PROVE  r \in Calcs /\ details[r][e] # None /\ details[r][e] \in Slip
<1>1. r \in Calcs /\ Paid(r) = Emps
  BY DEF PayDayInv, Inv, ShapeInv, Books, ItemInv
<1> QED BY <1>1 DEF PayDayInv, InputInv, DetailsInv, Paid

(* A stored payslip pays the overtime and deducts the leave approved now,  *)
(* except for an employee whose requests moved since it was begun.         *)
THEOREM PaysWhatWasDecidedHolds == PayDaySpec => []PaysWhatWasDecided
<1>1. PayDayInv => PaysWhatWasDecided
  <2> SUFFICES ASSUME PayDayInv, NEW r \in runs, NEW e \in Emps,
                      \A q \in changed[r] : request[q].emp # e
               PROVE  /\ details[r][e].overtime = SumApproved("overtime", e)
                      /\ details[r][e].days = SumApproved("leave", e)
    BY DEF PaysWhatWasDecided
  <2>1. r \in Calcs /\ details[r][e] # None
    BY StoredHasDetails
  <2>2. UpToDate(r, e)
    BY <2>1 DEF PayDayInv, InputInv, DecidedInv, Undisturbed
  <2> QED BY <2>1, <2>2 DEF UpToDate
<1> QED BY <1>1, PayDayInvariant, PTL

(* The brackets of the tax meet for every stored payslip, whatever the     *)
(* salary: no employee loses by overtime that lifts the pay over a limit.  *)
THEOREM SlicesMeetHolds == PayDaySpec => []SlicesMeet
<1>1. PayDayInv => SlicesMeet
  <2> SUFFICES ASSUME PayDayInv, NEW r \in runs, NEW e \in Emps, NEW times \in {1, 5, 7},
                      NEW base, base = times * Base, NEW slip, slip = details[r][e]
               PROVE  /\ SalaryTaxCents(base + OvertimeCents(base, slip.overtime))
                            = TaxBySlices(base + OvertimeCents(base, slip.overtime))
                      /\ TakeHome(base, [slip EXCEPT !.overtime = 0]) <= TakeHome(base, slip) + 1
    BY DEF SlicesMeet
  <2>1. base \in Nat
    BY SlipAssumption
  <2>2. slip \in [late : Nat, overtime : Nat, days : Nat]
    BY StoredHasDetails DEF Slip
  <2>3. PICK gross : gross = base + OvertimeCents(base, slip.overtime)
    OBVIOUS
  <2>4. gross \in Nat
    <3>1. OvertimeCents(base, slip.overtime) \in Nat
      BY <2>1, <2>2, OvertimeType
    <3> QED BY <2>1, <2>3, <3>1
  <2>5. SalaryTaxCents(gross) = TaxBySlices(gross)
    BY <2>4, BracketsAreSlices
  <2>6. TakeHome(base, [slip EXCEPT !.overtime = 0]) <= TakeHome(base, slip) + 1
    BY <2>1, <2>2, OvertimePays
  <2> QED BY <2>3, <2>5, <2>6
<1> QED BY <1>1, PayDayInvariant, PTL

(* A batch pays every employee of an approved run what the payslip says,   *)
(* and its total is that of the run.                                       *)
THEOREM BatchPaysEveryoneHolds == PayDaySpec => []BatchPaysEveryone
<1>1. PayDayInv => BatchPaysEveryone
  <2> SUFFICES ASSUME PayDayInv, NEW b \in batches
               PROVE  /\ batch[b].run \in approved
                      /\ {line.emp : line \in transfers[b]} = Emps
                      /\ \A line \in transfers[b] :
                           line.cents = items[batch[b].run][line.emp].net /\ line.cents > 0
                      /\ batch[b].total = total[batch[b].run].net
    BY DEF BatchPaysEveryone
  <2>1. b \in Batches /\ Written(b)
    BY DEF PayDayInv, BankInv, BatchInv, Written
  <2>2. batch[b].run \in approved /\ batch[b].total = total[batch[b].run].net
    BY <2>1 DEF PayDayInv, BankInv, BatchInv
  <2> QED BY <2>1, <2>2 DEF PayDayInv, BankInv, LinesInv
<1> QED BY <1>1, PayDayInvariant, PTL

(* Two transfers to one employee in a batch mean two requests for primary  *)
(* accounts that ran at the same time.                                     *)
THEOREM PaidTwiceOnlyByRaceHolds == PayDaySpec => []PaidTwiceOnlyByRace
<1>1. PayDayInv => PaidTwiceOnlyByRace
  <2> SUFFICES ASSUME PayDayInv, NEW b \in batches, NEW x \in transfers[b], NEW y \in transfers[b],
                      x.emp = y.emp, x # y
               PROVE  \E p, q \in Accounts :
                        /\ p \in met[q]
                        /\ want[p] = [emp |-> x.emp, number |-> x.account, primary |-> TRUE]
                        /\ want[q] = [emp |-> x.emp, number |-> y.account, primary |-> TRUE]
    BY DEF PaidTwiceOnlyByRace
  <2>1. b \in Batches /\ Written(b)
    BY DEF PayDayInv, BankInv, BatchInv, Written
  <2>2. \E p, q \in Accounts : p \in met[q] /\ Made(p, x.emp, x.account) /\ Made(q, y.emp, y.account)
    BY <2>1 DEF PayDayInv, BankInv, TwiceInv
  <2> QED BY <2>2 DEF Made
<1> QED BY <1>1, PayDayInvariant, PTL

(***************************************************************************)
(* From the requests to the account.                                       *)
(***************************************************************************)

(* An item pays what its payslip leaves after the advances. *)
NetInv ==
  \A c \in Calcs, e \in Emps : items[c][e] # None =>
    items[c][e].net = Payable(TakeHome(Base, details[c][e]), items[c][e].ewa)

LEMMA PayItemNet ==
  ASSUME Books, InputInv, NetInv, NEW c \in Calcs, PayItem(c)
  PROVE  NetInv'
<1>1. PICK e \in Emps, slip \in Slip : e = reading[c].emp /\ slip = reading[c].slip
  BY PayItemAdds DEF Read
<1>2. PICK earned : earned = TakeHome(Base, slip)
  OBVIOUS
<1>3. AddItem(c, e, earned) /\ details' = [details EXCEPT ![c][e] = slip]
  BY <1>1, <1>2 DEF PayItem
<1>4. PICK item : item = [ewa |-> Deductible(e), net |-> Payable(earned, Deductible(e))]
  OBVIOUS
<1>5. items' = [items EXCEPT ![c][e] = item]
  BY <1>3, <1>4 DEF AddItem, Deductible
<1>6. /\ items'[c][e] = item /\ details'[c][e] = slip
      /\ \A d \in Calcs, f \in Emps : d # c \/ f # e =>
           items'[d][f] = items[d][f] /\ details'[d][f] = details[d][f]
  BY <1>3, <1>5 DEF Books, ItemInv, InputInv, DetailsInv
<1>7. item.net = Payable(TakeHome(Base, slip), item.ewa)
  BY <1>2, <1>4
<1> QED BY <1>6, <1>7 DEF NetInv

LEMMA StepNet == PayDayInv /\ NetInv /\ [PayDayNext]_payDayVars => NetInv'
<1> SUFFICES ASSUME PayDayInv, NetInv, [PayDayNext]_payDayVars PROVE NetInv' OBVIOUS
<1>1. Inv /\ Books /\ InputInv
  BY DEF PayDayInv
<1>2. ASSUME UNCHANGED <<items, details>>
      PROVE  NetInv'
  BY <1>2 DEF NetInv
<1>3. ASSUME NEW c \in Calcs, PayItem(c)
      PROVE  NetInv'
  BY <1>1, <1>3, PayItemNet
<1>4. CASE PayrollStep
  BY <1>1, <1>2, <1>4, PayrollStepMoves
<1>5. ASSUME NEW c \in Calcs,
             \/ \E e \in Emps, late \in Late : ReadAttendance(c, e, late)
             \/ ReadOvertime(c) \/ ReadLeave(c)
      PROVE  NetInv'
  BY <1>2, <1>5 DEF ReadAttendance, ReadOvertime, ReadLeave, vars, runVars
<1>6. ASSUME NEW q \in Requests,
             \/ \E e \in Emps, n \in Days : CreateLeave(q, e, n)
             \/ \E e \in Emps, n \in Minutes : CreateOvertime(q, e, n)
             \/ \E d \in {"approved", "rejected"} : ReviewLeave(q, d) \/ ReviewOvertime(q, d)
      PROVE  NetInv'
  <2>1. UNCHANGED <<details, vars>>
    BY <1>6 DEF CreateLeave, CreateOvertime, ReviewLeave, ReviewOvertime, Review, Put
  <2> QED BY <1>2, <2>1 DEF vars, runVars
<1>7. CASE BankNext /\ UNCHANGED inputVars
  <2>1. UNCHANGED <<details, vars>>
    BY <1>7 DEF inputVars, BankNext, AddAccount, Demote, InsertAccount, CommitAccount, AbortAccount,
                CheckRun, OpenBatch, FillBatch, CommitBatch, AbortBatch, MarkSubmitted
  <2> QED BY <1>2, <2>1 DEF vars, runVars
<1>8. CASE PayDayIdle \/ UNCHANGED payDayVars
  BY <1>2, <1>8 DEF PayDayIdle, Idle, payDayVars, inputVars, vars, runVars
<1> QED BY <1>3, <1>4, <1>5, <1>6, <1>7, <1>8 DEF PayDayNext, InputNext

LEMMA PaidRecord ==
  ASSUME NEW s \in Slip, NEW o, NEW d, s.overtime = o, s.days = d
  PROVE  s = [late |-> s.late, overtime |-> o, days |-> d]
BY DEF Slip

(* Requests, payslip, run, accounts and batch are written by transactions  *)
(* of their own, and yet what reaches the account is what was decided: for *)
(* every salary, every number of employees and every interleaving.         *)
THEOREM PaidAsDecidedHolds == PayDaySpec => []PaidAsDecided
<1>1. PayDayInit => NetInv
  BY DEF PayDayInit, Init, NetInv
<1>2. PayDaySpec => []NetInv
  BY <1>1, StepNet, PayDayInvariant, PTL DEF PayDaySpec
<1>3. PayDayInv /\ NetInv => PaidAsDecided
  <2> SUFFICES ASSUME PayDayInv, NetInv, NEW b \in batches, NEW line \in transfers[b],
                      NEW r, r = batch[b].run, NEW e, e = line.emp,
                      \A q \in changed[r] : request[q].emp # e
               PROVE  line.cents =
                        Payable(TakeHome(Base, [late |-> details[r][e].late,
                                                overtime |-> SumApproved("overtime", e),
                                                days |-> SumApproved("leave", e)]), items[r][e].ewa)
    BY DEF PaidAsDecided
  <2>1. b \in Batches /\ Written(b)
    BY DEF PayDayInv, BankInv, BatchInv, Written
  <2>2. r \in approved /\ e \in Emps /\ line.cents = items[r][e].net
    BY <2>1 DEF PayDayInv, BankInv, BatchInv, LinesInv
  <2>3. r \in runs
    BY <2>2 DEF PayDayInv, Inv, ShapeInv
  <2>4. r \in Calcs /\ details[r][e] # None /\ details[r][e] \in Slip
    BY <2>2, <2>3, StoredHasDetails
  <2>5. UpToDate(r, e)
    BY <2>2, <2>4 DEF PayDayInv, InputInv, DecidedInv, Undisturbed
  <2>6. details[r][e] = [late |-> details[r][e].late, overtime |-> SumApproved("overtime", e),
                         days |-> SumApproved("leave", e)]
    BY <2>4, <2>5, PaidRecord DEF UpToDate
  <2>7. items[r][e] # None
    BY <2>2, <2>4 DEF PayDayInv, InputInv, DetailsInv
  <2>8. items[r][e].net = Payable(TakeHome(Base, details[r][e]), items[r][e].ewa)
    BY <2>2, <2>4, <2>7 DEF NetInv
  <2> QED BY <2>2, <2>6, <2>8
<1> QED BY <1>2, <1>3, PayDayInvariant, PTL
=============================================================================
