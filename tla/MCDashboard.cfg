CONSTANTS
  Reports = {r1, r2}
  Writers = {w1, w2}
  Periods = {daily}
  Chat = chat
  TTL = 1
  Floor = 1
  Delay = 1
  Limit = 1
  MaxClock = 3
  None = None
SYMMETRY Anyone
SPECIFICATION Spec
INVARIANTS
  TypeOK
  BoundedAge
  MissedOnlyIfOvertaken
  MisdirectedBriefly
  SlotsReturned
