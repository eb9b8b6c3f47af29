CONSTANTS
  Requests = {r1, r2, r3, r4}
  Users = {u1, u2}
  Tokens = {t1}
  DeviceEvents = {x1}
  u1 = u1
  u2 = u2
  t1 = t1
  x1 = x1
  None = None
  Inputs <- ShiftInputs
  MaxTime = 1
  Window = 1
  BlockScore = 100
SYMMETRY Anyone
SPECIFICATION Spec
PROPERTIES
  LedgerSpec
  FinishedShiftsFrozen
