CONSTANTS
  Instances = {i1, i2}
  Conns = {k1, k2}
  Last = 2
  MaxStops = 2
  Callers = {s1, s2}
  Emails = {m1, m2}
  None = None
SPECIFICATION FairSpec
INVARIANTS
  TypeOK
  MigratedOnceInOrder
  ExclusiveUnlessLost
  ServesOnlyMigrated
  OrgsComplete
  OneOwnerPerEmail
PROPERTY
  EveryInstanceServes
