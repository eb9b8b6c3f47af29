------------------------------ MODULE PayMonth -------------------------------
(***************************************************************************)
(* What the payroll of one month promises: there is at most one run, it    *)
(* may be calculated again while it is a draft, approving it changes       *)
(* nothing in it, and once approved its payslips are final.  Payroll, in   *)
(* which calculations and approvals are concurrent transactions,           *)
(* implements this specification.                                          *)
(***************************************************************************)
CONSTANTS
  Runs,      \* identities of payroll_runs rows
  None       \* no run yet

VARIABLES
  run,       \* the run of the month, or None
  final,     \* whether it is approved
  payslips   \* its items and totals, or None

month == <<run, final, payslips>>

Init ==
  /\ run = None
  /\ final = FALSE
  /\ payslips = None

(* A new draft takes the place of the old one, with whatever payslips the  *)
(* tables give at the time.                                                *)
Calculate(r) ==
  /\ ~ final
  /\ run # r
  /\ run' = r
  /\ UNCHANGED final

Approve ==
  /\ run # None /\ ~ final
  /\ final' = TRUE
  /\ UNCHANGED <<run, payslips>>

Next == Approve \/ \E r \in Runs : Calculate(r)

Spec == Init /\ [][Next]_month
=============================================================================
