\* Repeated ids at the end of a book stream.
SPECIFICATION BatchSpec
INVARIANTS
  CheckpointsAreReplayed
CONSTANTS
  Rows <- SmallRows
  Expectations <- SmallExpectations
  Factor = 3
  MaxRows = 4
  MaxBatch = 3
