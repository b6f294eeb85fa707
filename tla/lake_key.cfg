\* Two processes on one key.
SPECIFICATION FairSpec
INVARIANTS
  CalmReadsSucceed
  AcknowledgedResolvable
PROPERTIES
  ImplementsKeys
  CleanupCompletes
CONSTANTS
  p1 = p1
  p2 = p2
  c1 = c1
  c2 = c2
  r1 = r1
  r2 = r2
  k1 = k1
  None = None
  Procs = {p1, p2}
  Keys = {k1}
  Contents = {c1, c2}
  Receipts = {r1, r2}
  LegacyKeys = {k1}
  Quota = 2
  MaxCrashes = 1
  MaxFaults = 1
  MaxDamage = 1
