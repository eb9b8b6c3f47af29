----------------------------- MODULE ShiftLedger -----------------------------
(***************************************************************************)
(* What attendance promises payroll: every employee is either on shift or  *)
(* off shift, clock-ins and clock-outs alternate, a clock-out ends exactly *)
(* the shift that is open, no punch is used twice, and a finished shift is *)
(* never touched again.  The detailed module Attendance, in which punches  *)
(* are concurrent database transactions, implements this specification.    *)
(***************************************************************************)
CONSTANTS
  Users,      \* employees
  Punches,    \* identities of attendance_events rows
  None        \* "no punch"

VARIABLES
  onShift,    \* onShift[u]: the clock-in punch of u's open shift, or None
  shifts      \* finished shifts, [user, in, out]

ledger == <<onShift, shifts>>

(* The punches already spent on an open or a finished shift. *)
Spent == {onShift[u] : u \in Users} \cup
         UNION {{s.in, s.out} : s \in shifts}

Init ==
  /\ onShift = [u \in Users |-> None]
  /\ shifts = {}

ClockIn(u, p) ==
  /\ onShift[u] = None
  /\ p \notin Spent
  /\ onShift' = [onShift EXCEPT ![u] = p]
  /\ UNCHANGED shifts

ClockOut(u, p) ==
  /\ onShift[u] # None
  /\ p \notin Spent
  /\ shifts' = shifts \cup {[user |-> u, in |-> onShift[u], out |-> p]}
  /\ onShift' = [onShift EXCEPT ![u] = None]

Next == \E u \in Users, p \in Punches : ClockIn(u, p) \/ ClockOut(u, p)

Spec == Init /\ [][Next]_ledger
=============================================================================
