\* Three streams, a probe or a long-running capture, cancelled up to twice.
SPECIFICATION FairSpec
INVARIANTS
  NoTaskOutlivesRun
  CompleteIsUndisturbed
PROPERTIES
  FailureEndsRun
CONSTANTS
  s1 = s1
  s2 = s2
  s3 = s3
  Streams = {s1, s2, s3}
  MaxCancels = 2
