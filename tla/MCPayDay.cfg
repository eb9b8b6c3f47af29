CONSTANTS
  Calcs = {c1, c2}
  Advances = {}
  Emps = {e1}
  None = None
  Earnings <- MCEarnings
  Amounts = {}
  Cap = 0
  Requests = {q1}
  Minutes = {600}
  Days = {22}
  Late = {30}
  Base = 48000
  Accounts = {p1, p2}
  Numbers = {n1, n2}
  Batches = {b1}
SYMMETRY Anyone
SPECIFICATION PayDaySpec
INVARIANTS
  TablesTyped
  PaysWhatWasDecided
  SlicesMeet
  BatchPaysEveryone
  PaidTwiceOnlyByRace
  PaidAsDecided
PROPERTY
  IsPayroll
