\* One stream on a small hot volume, with failing writes and exchanged volumes.
SPECIFICATION Spec
INVARIANTS
  HotWithinFloor
  ChainsUnbroken
  
CONSTANTS
  a1 = a1
  h = h
  None = None
  Volumes = {a1, h}
  SharesDevice = {h}
  Room = 7
  ArchiveRoom = 6
  ProbeMessages = 7
  MaxMessages = 2
  MaxFrames = 3
  MaxAudits = 2
  MaxFaults = 1
  MaxSwaps = 1
