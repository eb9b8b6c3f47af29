CONSTANTS
  Calcs = {c1}
  Advances = {a1, a2}
  Emps = {e1, e2}
  None = None
  Earned = 3
  Asked = 2
  Earnings <- MCEarnings
  Amounts <- MCAmounts
  Cap = 4
SPECIFICATION Spec
INVARIANT
  AdvancesRepaid
