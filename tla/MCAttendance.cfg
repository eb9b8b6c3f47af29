CONSTANTS
  Requests = {r1, r2, r3}
  Users = {u1}
  Tokens = {t1}
  DeviceEvents = {x1}
  u1 = u1
  u2 = u2
  t1 = t1
  x1 = x1
  None = None
  Inputs <- MixedInputs
  MaxTime = 2
  Window = 1
  BlockScore = 100
SYMMETRY Anyone
SPECIFICATION Spec
INVARIANTS
  TypeOK
  OneOpenSession
  PunchesPairUp
  DeviceIdempotent
  AnswersTruthful
  ScansCounted
  ReplayNoticed
