\* Bars of fixed time over trades at whole seconds and at fractions of them.
SPECIFICATION BarsSpec
INVARIANTS
  CertifiedBarsOpenAndClose
SYMMETRY Symmetry
CONSTANTS
  a = a
  b = b
  Blank = Blank
  Bad = Bad
  Everything = Everything
  Refused = Refused
  Absent = Absent
  table = table
  report = report
  manifest = manifest
  derive = derive
  rederive = rederive
  Objects = {table, report, manifest, derive, rederive}
  Owners = {o1}
  Manifests = {manifest}
  Members <- TheMembers
  Derivations = {derive, rederive}
  Inputs <- TheInputs
  Output <- TheOutput
  Ambiguous = {25}
  Instants <- TheInstants
  Minute = 4
  Day = 8
  Unknown = Unknown
  Second = 2
  Sessions <- TheSessions
  Calls <- TheCalls
  Revisions = {r1, r2}
  Writers = {w1, w2}
  MaxLost = 1
  NoSnapshot = NoSnapshot
  Rows <- SmallRows
  Expectations <- SmallExpectations
  Factor = 3
  MaxRows = 4
  MaxBatch = 3
