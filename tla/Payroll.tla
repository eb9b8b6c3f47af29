------------------------------- MODULE Payroll -------------------------------
(***************************************************************************)
(* The payroll of one organisation for one month: calculatePayroll and     *)
(* approvePayrollRun on the run and its items, createEWARequest and        *)
(* reviewEWARequest on the advances the run deducts, as interleaved READ   *)
(* COMMITTED transactions.  An element of Calcs is one calculation and the *)
(* payroll_runs row it inserts; an element of Advances is one request for  *)
(* an advance and the ewa_requests row it inserts.                         *)
(***************************************************************************)
EXTENDS Integers, FiniteSets, Functions

CONSTANTS
  Calcs,      \* POST /payroll/runs for the month
  Advances,   \* POST /ewa/requests in the month
  Emps,       \* active employees
  Earnings,   \* what an employee may have earned, all deductions but EWA made
  Amounts,    \* amounts an employee may ask for
  Cap,        \* round(base * ewa_max_percent_of_monthly_salary)
  None

ASSUME NoneAssumption == None \notin Calcs \cup Advances \cup Emps
ASSUME NoRowAssumption ==
  None \notin [ewa : Nat, net : Nat] /\ None \notin {"pending", "approved", "rejected"}
ASSUME MoneyAssumption ==
  Earnings \subseteq Nat /\ Amounts \subseteq Nat \ {0} /\ Cap \in Nat

VARIABLES
  pc,        \* pc[c]: the next statement of calculation c, or its answer
  old,       \* old[c]: the run row c waits for or has locked and deleted
  items,     \* items[c][e]: payroll_items rows of run c, None if not there
  total,     \* total[c]: deductions_cents (EWA part) and net_cents of run c
  runs,      \* committed rows of payroll_runs for the month
  approved,  \* those with status 'approved'
  apc,       \* apc[a]: the next statement of request a, or its answer
  ask,       \* ask[a]: the employee and the amount
  status     \* status[a]: status of the committed ewa_requests row, or None

runVars == <<pc, old, items, total, runs, approved>>
ewaVars == <<apc, ask, status>>
vars == <<runVars, ewaVars>>

Answers == {"created", "refused", "error"}

(* The rows of ewa_requests of e whose status is one of s. *)
Requested(e, s) == {a \in Advances : status[a] \in s /\ ask[a].emp = e}

Amount(S) == SumFunction([a \in S |-> ask[a].cents])

(* Seeded fault: a calculation that fails keeps its transaction open. *)
InsertedLeaked(c) == pc[c] \in {"items", "commit", "error"}

(* c has inserted its run and has not ended. *)
Inserted(c) == pc[c] \in {"items", "commit"}

(* c holds the lock of run r, which it is replacing. *)
Replaces(c, r) == (pc[c] = "insert" \/ Inserted(c)) /\ old[c] = r

Locked(r) == \E c \in Calcs : Replaces(c, r)

Init ==
  /\ pc = [c \in Calcs |-> "new"]
  /\ old = [c \in Calcs |-> None]
  /\ items = [c \in Calcs |-> [e \in Emps |-> None]]
  /\ total = [c \in Calcs |-> [ewa |-> 0, net |-> 0]]
  /\ runs = {}
  /\ approved = {}
  /\ apc = [a \in Advances |-> "new"]
  /\ ask = [a \in Advances |-> None]
  /\ status = [a \in Advances |-> None]

(***************************************************************************)
(* calculatePayroll.                                                       *)
(***************************************************************************)
Goto(c, l) == pc' = [pc EXCEPT ![c] = l]

Start(c) ==
  /\ pc[c] = "new"
  /\ Goto(c, "select")
  /\ UNCHANGED <<old, items, total, runs, approved, ewaVars>>

(* Seeded fault: the status of the run found is not looked at. *)
RunFoundAny(c, r) ==
  /\ Goto(c, "insert")
  /\ old' = [old EXCEPT ![c] = r]
  /\ UNCHANGED <<items, total, runs, approved, ewaVars>>

(* SELECT ... FOR UPDATE found run r.  A draft is locked and deleted; any  *)
(* other status ends the calculation.                                      *)
RunFound(c, r) ==
  /\ IF r \in approved
       THEN Goto(c, "refused") /\ old' = [old EXCEPT ![c] = None]
       ELSE Goto(c, "insert") /\ old' = [old EXCEPT ![c] = r]
  /\ UNCHANGED <<items, total, runs, approved, ewaVars>>

NoRunFound(c) ==
  /\ Goto(c, "insert")
  /\ old' = [old EXCEPT ![c] = None]
  /\ UNCHANGED <<items, total, runs, approved, ewaVars>>

AwaitRun(c, r) ==
  /\ Goto(c, "wait")
  /\ old' = [old EXCEPT ![c] = r]
  /\ UNCHANGED <<items, total, runs, approved, ewaVars>>

SelectRun(c) ==
  /\ pc[c] = "select"
  /\ \/ runs = {} /\ NoRunFound(c)
     \/ \E r \in runs : ~ Locked(r) /\ RunFound(c, r)
     \/ \E r \in runs : Locked(r) /\ AwaitRun(c, r)

(* The wait for row r is over: it was deleted, or its transaction failed.  *)
(* A run inserted meanwhile is not in the snapshot of the statement.       *)
RecheckRun(c) ==
  /\ pc[c] = "wait"
  /\ ~ Locked(old[c])
  /\ IF old[c] \in runs THEN RunFound(c, old[c]) ELSE NoRunFound(c)

(* Seeded fault: the table has no UNIQUE(org_id, month). *)
InsertRunAnyway(c) ==
  /\ pc[c] = "insert"
  /\ Goto(c, "items")
  /\ UNCHANGED <<old, items, total, runs, approved, ewaVars>>

(* UNIQUE(org_id, month): the INSERT waits for a run that is pending and   *)
(* for one that another transaction is deleting, and fails (500) if any    *)
(* run remains but the one deleted by this transaction.                    *)
InsertRun(c) ==
  /\ pc[c] = "insert"
  /\ \A d \in Calcs : d # c => ~ Inserted(d)
  /\ \A r \in runs \ {old[c]} : ~ Locked(r)
  /\ Goto(c, IF runs \subseteq {old[c]} THEN "items" ELSE "error")
  /\ UNCHANGED <<old, items, total, runs, approved, ewaVars>>

Payable(earned, ewa) == IF earned >= ewa THEN earned - ewa ELSE 0

(* Seeded fault: the run adds up what the employee is owed before it is    *)
(* cut off at 0.                                                           *)
AddItemOwed(c, e, earned) ==
  /\ pc[c] = "items"
  /\ items[c][e] = None
  /\ LET ewa == Amount(Requested(e, {"approved"}))
     IN  /\ items' = [items EXCEPT ![c][e] = [ewa |-> ewa, net |-> Payable(earned, ewa)]]
         /\ total' = [total EXCEPT ![c].ewa = @ + ewa, ![c].net = @ + earned - ewa]
  /\ UNCHANGED <<pc, old, runs, approved, ewaVars>>

(* One employee of the loop.  What he or she earned depends on tables that *)
(* change between the statements; the advances are those approved by now.  *)
AddItem(c, e, earned) ==
  /\ pc[c] = "items"
  /\ items[c][e] = None
  /\ LET ewa == Amount(Requested(e, {"approved"}))
         net == Payable(earned, ewa)
     IN  /\ items' = [items EXCEPT ![c][e] = [ewa |-> ewa, net |-> net]]
         /\ total' = [total EXCEPT ![c].ewa = @ + ewa, ![c].net = @ + net]
  /\ UNCHANGED <<pc, old, runs, approved, ewaVars>>

(* The totals are written after the last employee. *)
Totals(c) ==
  /\ pc[c] = "items"
  /\ \A e \in Emps : items[c][e] # None
  /\ Goto(c, "commit")
  /\ UNCHANGED <<old, items, total, runs, approved, ewaVars>>

(* The new run and its items appear and the old run disappears in one      *)
(* step.  The answer may be lost on its way.                               *)
Commit(c) ==
  /\ pc[c] = "commit"
  /\ runs' = (runs \ {old[c]}) \cup {c}
  /\ \E answer \in {"created", "error"} : Goto(c, answer)
  /\ UNCHANGED <<old, items, total, approved, ewaVars>>

(* A failed statement, the deadline or a crash: nothing was written. *)
Abort(c) ==
  /\ pc[c] \in {"select", "wait", "insert", "items", "commit"}
  /\ Goto(c, "error")
  /\ UNCHANGED <<old, items, total, runs, approved, ewaVars>>

(* approvePayrollRun: one UPDATE guarded by status='draft', which waits    *)
(* for a calculation that has the row locked.                              *)
Approve(r) ==
  /\ r \in runs \ approved
  /\ ~ Locked(r)
  /\ approved' = approved \cup {r}
  /\ UNCHANGED <<pc, old, items, total, runs, ewaVars>>

(***************************************************************************)
(* Earned wage access.                                                     *)
(***************************************************************************)

(* createEWARequest sums the pending and approved advances of the month,   *)
(* outside any transaction.  The error of that SELECT is ignored: it then  *)
(* counts as no advance.                                                   *)
AskAdvance(a, e, cents) ==
  /\ apc[a] = "new"
  /\ ask' = [ask EXCEPT ![a] = [emp |-> e, cents |-> cents]]
  /\ \E already \in {0, Amount(Requested(e, {"pending", "approved"}))} :
       apc' = [apc EXCEPT ![a] = IF cents <= Cap - already THEN "insert" ELSE "refused"]
  /\ UNCHANGED <<status, runVars>>

InsertAdvance(a) ==
  /\ apc[a] = "insert"
  /\ status' = [status EXCEPT ![a] = "pending"]
  /\ \E answer \in {"created", "error"} : apc' = [apc EXCEPT ![a] = answer]
  /\ UNCHANGED <<ask, runVars>>

FailAdvance(a) ==
  /\ apc[a] = "insert"
  /\ apc' = [apc EXCEPT ![a] = "error"]
  /\ UNCHANGED <<ask, status, runVars>>

(* Seeded fault: the UPDATE has no guard, as that of reviewLeave has none. *)
ReviewAdvanceAgain(a, decision) ==
  /\ status[a] # None
  /\ status' = [status EXCEPT ![a] = decision]
  /\ UNCHANGED <<apc, ask, runVars>>

(* reviewEWARequest: one UPDATE guarded by status='pending'. *)
ReviewAdvance(a, decision) ==
  /\ status[a] = "pending"
  /\ status' = [status EXCEPT ![a] = decision]
  /\ UNCHANGED <<apc, ask, runVars>>

Idle ==
  /\ \A c \in Calcs : pc[c] \in Answers
  /\ \A a \in Advances : apc[a] \in Answers
  /\ UNCHANGED vars

Calculate(c) ==
  \/ SelectRun(c) \/ RecheckRun(c) \/ InsertRun(c)
  \/ \E e \in Emps, earned \in Earnings : AddItem(c, e, earned)
  \/ Totals(c) \/ Commit(c)

Next ==
  \/ \E c \in Calcs : Start(c) \/ Calculate(c) \/ Abort(c) \/ Approve(c)
  \/ \E a \in Advances, e \in Emps, cents \in Amounts : AskAdvance(a, e, cents)
  \/ \E a \in Advances : InsertAdvance(a) \/ FailAdvance(a)
  \/ \E a \in Advances, d \in {"approved", "rejected"} : ReviewAdvance(a, d)
  \/ Idle

Spec == Init /\ [][Next]_vars


(***************************************************************************)
(* Properties.                                                             *)
(***************************************************************************)
Money == Nat

(* The shape of the tables; only a run that was calculated is stored. *)
TypeOK ==
  /\ pc \in [Calcs -> Answers \cup
               {"new", "select", "wait", "insert", "items", "commit"}]
  /\ old \in [Calcs -> Calcs \cup {None}]
  /\ \A c \in Calcs, e \in Emps : items[c][e] = None \/ items[c][e] \in [ewa : Money, net : Money]
  /\ total \in [Calcs -> [ewa : Money, net : Money]]
  /\ runs \subseteq {c \in Calcs : pc[c] \in {"created", "error"}}
  /\ approved \subseteq runs
  /\ apc \in [Advances -> Answers \cup {"new", "insert"}]
  /\ ask \in [Advances -> [emp : Emps, cents : Amounts] \cup {None}]
  /\ status \in [Advances -> {None, "pending", "approved", "rejected"}]

(* Concurrent calculations of a month that has no run both find none; the  *)
(* month still never has two.                                              *)
OneRunPerMonth == \A r1, r2 \in runs : r1 = r2

(* A run anyone can see has one item for every employee, and its totals    *)
(* are the sums of its items, also for an employee whose advances exceed   *)
(* what he or she earned.                                                  *)
RunAddsUp ==
  \A r \in runs :
    /\ \A e \in Emps : items[r][e] # None
    /\ total[r].net = SumFunction([e \in Emps |-> items[r][e].net])
    /\ total[r].ewa = SumFunction([e \in Emps |-> items[r][e].ewa])

(* No run deducts more from an employee than advances that are approved:   *)
(* the decision on an advance is final, so a deduction never outlives it.  *)
OnlyApprovedDeducted ==
  \A r \in runs, e \in Emps :
    items[r][e].ewa <= Amount(Requested(e, {"approved"}))

(* The month goes from no run through drafts to an approved run whose      *)
(* items and totals never change: neither a calculation under way when the *)
(* run is approved nor a later one replaces it.                            *)
TheRun == IF runs = {} THEN None ELSE CHOOSE r \in runs : TRUE

Month == INSTANCE PayMonth WITH
  Runs <- Calcs,
  run <- TheRun,
  final <- runs \cap approved # {},
  payslips <- IF runs = {} THEN None ELSE <<items[TheRun], total[TheRun]>>

MonthSpec == Month!Spec

(* Calculations that replace the same draft, or insert for the same month, *)
(* wait for each other, never in a cycle: one of them can always go on     *)
(* without the failure or the deadline of another.                         *)
NeverStuck ==
  (\E c \in Calcs : pc[c] \notin Answers \cup {"new"}) =>
    \E c \in Calcs : ENABLED Calculate(c)

(* seedPayrollDefaults describes ewa_max_percent_of_monthly_salary as the  *)
(* maximum advance as a percentage of the monthly base salary.             *)
AdvancesWithinCap ==
  \A e \in Emps : Amount(Requested(e, {"pending", "approved"})) <= Cap

(* The same when every SELECT of the sum succeeds: two requests of one     *)
(* employee may still both read the sum before either inserts.             *)
Reliable ==
  \A a \in Advances : apc[a] = "new" /\ apc'[a] = "insert" =>
     ask'[a].cents <= Cap - Amount(Requested(ask'[a].emp, {"pending", "approved"}))

ReliableSpec == Init /\ [][Next /\ Reliable]_vars

(* README: EWA deduction from monthly payroll.  Every approved advance of  *)
(* the month is deducted by the run that was approved.                     *)
AdvancesRepaid ==
  \A r \in approved, e \in Emps :
    items[r][e].ewa = Amount(Requested(e, {"approved"}))
=============================================================================
