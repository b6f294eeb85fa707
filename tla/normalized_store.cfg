\* Two processes, two conflicting batches beside one in the old layout.
SPECIFICATION FairSpec
INVARIANTS
  NoConflictingClaims
  SnapshotHasIndex
PROPERTIES
  
  CallsEnd
CONSTANTS
  p1 = p1
  p2 = p2
  old = old
  b1 = b1
  b2 = b2
  None = None
  Procs = {p1, p2}
  Batches = {old, b1, b2}
  Legacy = {old}
  Conflicts <- TwoConflict
  MaxCalls = 3
  MaxCrashes = 2
  MaxFaults = 1
  MaxDamage = 2
