\* A Binance or OKX stream, bounded or not.
SPECIFICATION FairSpec
INVARIANTS
  SegmentsWithinEpoch
PROPERTIES
  ImplementsLife
  ProbeEnds
CONSTANTS
  None = None
  Providers = {"binance", "okx"}
  MaxMessages = 2
  MaxAttempts = 2
  SegmentSize = 2
  CloseMayFail = TRUE
  MaxFaults = 2
  MaxCancels = 1
