\* Two callers, three imports into two datasets, an error and a crash.
SPECIFICATION Spec
INVARIANTS
  OneLineOfVersions
  ReceiptsAreTrue
  ReadersAreServed
SYMMETRY NamesAndCallers
CONSTANTS
  a = a
  b = b
  c1 = c1
  c2 = c2
  Blank = Blank
  Bad = Bad
  Everything = Everything
  Refused = Refused
  None = None
  Ambiguous = {}
  Callers <- TwoCallers
  bars = bars
  factors = factors
  Names <- TwoNames
  Sources <- SmallSources
  Queries <- SmallQueries
  MaxImports = 3
  MaxFaults = 1
  MaxCrashes = 1
