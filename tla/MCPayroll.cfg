CONSTANTS
  Calcs = {c1, c2, c3}
  Advances = {a1, a2}
  Emps = {e1, e2}
  None = None
  Earned = 3
  Asked = 2
  Earnings <- MCEarnings
  Amounts <- MCAmounts
  Cap = 4
SYMMETRY Anyone
SPECIFICATION Spec
INVARIANTS
  TypeOK
  OneRunPerMonth
  RunAddsUp
  OnlyApprovedDeducted
  NeverStuck
PROPERTY
  MonthSpec
