CONSTANTS
  Instances = {i1, i2}
  Conns = {k1}
  Last = 1
  MaxStops = 0
  Callers = {s1, s2}
  Emails = {m1, m2}
  None = None
SPECIFICATION Spec
INVARIANT
  SetupOnce
