\* The collector's discipline: one finalize, or aborts, per process.  A write may
\* fail before its file is visible or after it.
SPECIFICATION FairSpec
INVARIANTS
  WriteAhead
  CommittedIsComplete
PROPERTIES
  ImplementsDecision
  PreparedCommits
CONSTANTS
  s1 = s1
  s2 = s2
  None = None
  Segments = {s1, s2}
  Stamps = {1, 2}
  MaxPartRows = 2
  MaxRows = 4
  MaxCalls = 2
  MaxFaults = 3
  MaxCrashes = 3
  LateFaults = TRUE
  InProcessRetry = FALSE
