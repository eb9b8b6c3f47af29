CONSTANTS
  Requests = {r1, r2, r3}
  Users = {u1}
  Tokens = {t1}
  DeviceEvents = {x1}
  u1 = u1
  u2 = u2
  t1 = t1
  x1 = x1
  None = None
  Inputs <- MixedInputs
  MaxTime = 0
  Window = 1
  BlockScore = 100
SPECIFICATION FairSpec
PROPERTY
  EveryRequestAnswered
