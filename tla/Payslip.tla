------------------------------- MODULE Payslip -------------------------------
(***************************************************************************)
(* The arithmetic of one payslip, from calculatePayroll and                *)
(* calculateSalaryTaxCents: what an employee paid in USD takes home before *)
(* advances, in cents, under the rules seedPayrollDefaults writes.  The    *)
(* code computes with float64 and rounds each amount; here the same        *)
(* quotients are exact, and rounded the same way.                          *)
(***************************************************************************)
EXTENDS Integers, Functions

Round(n, d) == (2 * n + d) \div (2 * d)   \* of n/d, n >= 0, halves up

Positive(n) == IF n > 0 THEN n ELSE 0

(* 22 days of workday_hours = 8 hours. *)
MonthMinutes == 22 * 8 * 60

(* ot_multiplier = 1.5 *)
OvertimeCents(base, minutes) == Round(3 * base * minutes, 2 * MonthMinutes)

LateDeduction(base, minutes) == Round(base * minutes, MonthMinutes)

UnpaidDeduction(base, days) == Round(base * days, 22)

(* nssf_healthcare_employee_rate + nssf_pension_employee_rate = 3.3 % *)
NssfEmployee(gross) == Round(33 * gross, 1000)

(* Seeded fault: the deduction of one bracket is that of the next. *)
BracketSlipped(khr) ==
  IF khr <= 1500000 THEN [rate |-> 0, less |-> 0]
  ELSE IF khr <= 2000000 THEN [rate |-> 5, less |-> 75000]
  ELSE IF khr <= 8500000 THEN [rate |-> 10, less |-> 600000]
  ELSE IF khr <= 12500000 THEN [rate |-> 15, less |-> 600000]
  ELSE [rate |-> 20, less |-> 1225000]

(* The brackets of the tax on salary: up to so many riel, per cent of the  *)
(* whole salary, less so many riel.                                        *)
Bracket(khr) ==
  IF khr <= 1500000 THEN [rate |-> 0, less |-> 0]
  ELSE IF khr <= 2000000 THEN [rate |-> 5, less |-> 75000]
  ELSE IF khr <= 8500000 THEN [rate |-> 10, less |-> 175000]
  ELSE IF khr <= 12500000 THEN [rate |-> 15, less |-> 600000]
  ELSE [rate |-> 20, less |-> 1225000]

(* At exchange_rate_usd_khr = 4100 a cent is 41 riel. *)
SalaryTaxCents(gross) ==
  LET khr == 41 * gross
      b == Bracket(khr)
  IN  Round(Positive(khr * b.rate - 100 * b.less), 4100)

(* What the brackets stand for: 5 % more of every slice above a limit, for *)
(* a salary of so many cents.                                              *)
Limits == {1500000, 2000000, 8500000, 12500000}

TaxBySlices(cents) == Round(SumFunction([l \in Limits |-> 5 * Positive(41 * cents - l)]), 4100)

(* slip: the minutes late, the minutes of approved overtime and the days   *)
(* of unpaid leave of the month.                                           *)
TakeHome(base, slip) ==
  LET gross == base + OvertimeCents(base, slip.overtime)
  IN  Positive(gross - LateDeduction(base, slip.late) - UnpaidDeduction(base, slip.days)
                 - SalaryTaxCents(gross) - NssfEmployee(gross))
=============================================================================
