\* Two callers, a provider that changes its past, three snapshots.
SPECIFICATION DatasetSpec
INVARIANTS
  
  ReceiptsAreFirst
  LineageHolds
SYMMETRY CallerSymmetry
CONSTANTS
  c1 = c1
  c2 = c2
  Absent = Absent
  Callers = {c1, c2}
  LastDay = 2
  LastCapture = 2
  Overlap = 1
  MaxRevisions = 1
  MaxCalls = 3
