------------------------------ MODULE PayInputs ------------------------------
(***************************************************************************)
(* What calculatePayroll reads of an employee: leave and overtime requests *)
(* as they are created and reviewed, and the statements of the loop that   *)
(* sum them, one snapshot each, before the item is inserted.  An element   *)
(* of Requests is one leave_requests or overtime_requests row.             *)
(***************************************************************************)
EXTENDS Payroll, Payslip

CONSTANTS
  Requests,   \* POST /leave-requests and /overtime-requests
  Minutes,    \* minutes of overtime a request may ask for
  Days,       \* days of unpaid leave a request may ask for
  Late,       \* minutes late an employee may be in the month
  Base        \* base_salary_cents

ASSUME SlipAssumption ==
  Minutes \subseteq Nat \ {0} /\ Days \subseteq Nat \ {0} /\ Late \subseteq Nat /\ Base \in Nat
ASSUME NoSlipAssumption ==
  /\ None \notin [late : Nat, overtime : Nat, days : Nat]
  /\ None \notin [kind : {"leave", "overtime"}, emp : Emps, sum : Nat,
                  status : {"pending", "approved", "rejected"}]

(* Earnings has what an employee may take home for any requests approved. *)
ASSUME EarningsAssumption ==
  \A Q, R \in {S \in SUBSET Requests : IsFiniteSet(S)}, late \in Late :
    \A minutes \in [Q -> Minutes], days \in [R -> Days] :
      TakeHome(Base, [late |-> late, overtime |-> SumFunction(minutes), days |-> SumFunction(days)])
        \in Earnings

VARIABLES
  request,   \* request[q]: the committed row, or None
  reading,   \* reading[c]: the employee c is at, its next SELECT and what it read
  details,   \* details[c][e]: payroll_items.details, None if not there
  changed    \* changed[c]: the requests created or reviewed since c began

inputVars == <<request, reading, details, changed>>

InputInit ==
  /\ request = [q \in Requests |-> None]
  /\ reading = [c \in Calcs |-> None]
  /\ details = [c \in Calcs |-> [e \in Emps |-> None]]
  /\ changed = [c \in Calcs |-> {}]

Put(q, row) ==
  /\ request' = [request EXCEPT ![q] = row]
  /\ changed' = [c \in Calcs |-> IF pc[c] = "new" THEN {} ELSE changed[c] \cup {q}]
  /\ UNCHANGED <<reading, details, vars>>

(* createLeaveRequest, of a type that is not paid. *)
CreateLeave(q, e, days) ==
  request[q] = None /\ Put(q, [kind |-> "leave", emp |-> e, sum |-> days, status |-> "pending"])

CreateOvertime(q, e, minutes) ==
  request[q] = None /\ Put(q, [kind |-> "overtime", emp |-> e, sum |-> minutes, status |-> "pending"])

Review(kind, q, decision) ==
  /\ request[q] # None
  /\ request[q].kind = kind
  /\ Put(q, [request[q] EXCEPT !.status = decision])

(* One UPDATE, whatever the status was. *)
ReviewLeave(q, decision) == Review("leave", q, decision)

ReviewOvertime(q, decision) == Review("overtime", q, decision)

Approved(kind, e) ==
  {q \in Requests : request[q] # None /\ request[q].kind = kind
                      /\ request[q].emp = e /\ request[q].status = "approved"}

SumApproved(kind, e) == SumFunction([q \in Approved(kind, e) |-> request[q].sum])

At(c, step) == pc[c] = "items" /\ reading[c] # None /\ reading[c].step = step

(* payrollAttendanceStats; what it sums is module Attendance. *)
ReadAttendance(c, e, late) ==
  /\ pc[c] = "items"
  /\ items[c][e] = None
  /\ reading[c] = None
  /\ reading' = [reading EXCEPT ![c] =
       [emp |-> e, step |-> "overtime", slip |-> [late |-> late, overtime |-> 0, days |-> 0]]]
  /\ UNCHANGED <<request, details, changed, vars>>

(* payrollApprovedOvertime *)
ReadOvertime(c) ==
  /\ At(c, "overtime")
  /\ reading' = [reading EXCEPT ![c].step = "leave",
                   ![c].slip.overtime = SumApproved("overtime", reading[c].emp)]
  /\ UNCHANGED <<request, details, changed, vars>>

(* Seeded fault: a request counts unless it was rejected. *)
ReadLeaveNotRejected(c) ==
  /\ At(c, "leave")
  /\ reading' = [reading EXCEPT ![c].step = "item",
                   ![c].slip.days = SumFunction([q \in
                      {q \in Requests : request[q] # None /\ request[q].kind = "leave"
                                          /\ request[q].emp = reading[c].emp
                                          /\ request[q].status # "rejected"} |-> request[q].sum])]
  /\ UNCHANGED <<request, details, changed, vars>>

(* payrollUnpaidLeaveDays *)
ReadLeave(c) ==
  /\ At(c, "leave")
  /\ reading' = [reading EXCEPT ![c].step = "item",
                   ![c].slip.days = SumApproved("leave", reading[c].emp)]
  /\ UNCHANGED <<request, details, changed, vars>>

(* Seeded fault: the days of leave are on the payslip and not deducted. *)
PayItemUndeducted(c) ==
  /\ At(c, "item")
  /\ LET e == reading[c].emp
         slip == reading[c].slip
     IN  /\ AddItem(c, e, TakeHome(Base, [slip EXCEPT !.days = 0]))
         /\ details' = [details EXCEPT ![c][e] = slip]
  /\ reading' = [reading EXCEPT ![c] = None]
  /\ UNCHANGED <<request, changed>>

(* payrollApprovedEWACents, the payslip and its row. *)
PayItem(c) ==
  /\ At(c, "item")
  /\ LET e == reading[c].emp
         slip == reading[c].slip
     IN  AddItem(c, e, TakeHome(Base, slip)) /\ details' = [details EXCEPT ![c][e] = slip]
  /\ reading' = [reading EXCEPT ![c] = None]
  /\ UNCHANGED <<request, changed>>

(* The rest of the calculation, the approval and the advances. *)
PayrollStep ==
  /\ \/ \E c \in Calcs :
          \/ Start(c) \/ SelectRun(c) \/ RecheckRun(c) \/ InsertRun(c)
          \/ Totals(c) \/ Commit(c) \/ Abort(c) \/ Approve(c)
     \/ \E a \in Advances :
          \/ \E e \in Emps, cents \in Amounts : AskAdvance(a, e, cents)
          \/ InsertAdvance(a) \/ FailAdvance(a)
          \/ \E d \in {"approved", "rejected"} : ReviewAdvance(a, d)
  /\ reading' = [c \in Calcs |-> IF pc'[c] = "items" THEN reading[c] ELSE None]
  /\ UNCHANGED <<request, details, changed>>

InputNext ==
  \/ PayrollStep
  \/ \E c \in Calcs :
       \/ \E e \in Emps, late \in Late : ReadAttendance(c, e, late)
       \/ ReadOvertime(c) \/ ReadLeave(c) \/ PayItem(c)
  \/ \E q \in Requests :
       \/ \E e \in Emps, n \in Days : CreateLeave(q, e, n)
       \/ \E e \in Emps, n \in Minutes : CreateOvertime(q, e, n)
       \/ \E d \in {"approved", "rejected"} : ReviewLeave(q, d) \/ ReviewOvertime(q, d)


(***************************************************************************)
(* Properties.                                                             *)
(***************************************************************************)

(* A stored run pays the overtime and deducts the unpaid leave that are    *)
(* approved now, except for an employee one of whose requests was created  *)
(* or reviewed after the calculation began: a review has no guard on the   *)
(* status, and nothing recalculates an approved run.                       *)
PaysWhatWasDecided ==
  \A r \in runs, e \in Emps :
    (\A q \in changed[r] : request[q].emp # e) =>
      /\ details[r][e].overtime = SumApproved("overtime", e)
      /\ details[r][e].days = SumApproved("leave", e)

(* The tax of a stored payslip is what each slice of the gross pay owes at *)
(* its own rate, and overtime never costs more than it brings, but for a   *)
(* cent of rounding, also when it crosses a limit: the deductions of the   *)
(* brackets make them meet.                                                *)
(* Both hold for the salary and multiples that reach the other brackets.   *)
SlicesMeet ==
  \A r \in runs, e \in Emps, times \in {1, 5, 7} :
    LET base == times * Base
        slip == details[r][e]
        gross == base + OvertimeCents(base, slip.overtime)
    IN  /\ SalaryTaxCents(gross) = TaxBySlices(gross)
        /\ TakeHome(base, [slip EXCEPT !.overtime = 0]) <= TakeHome(base, slip) + 1
=============================================================================
