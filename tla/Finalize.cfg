SPECIFICATION FairSpec
CONSTANTS
  Runs = {w1, w2}
  NoRun = NoRun
  Attempts = 3
  MaxStalled = 1
  MaxCrashes = 1
  MaxFaults = 2
  MaxZombies = 1
CHECK_DEADLOCK FALSE
INVARIANTS
  OneAsset
  NoOrphan
  NothingErasedUnheld
PROPERTIES
  ImplementsIngestOnce
  RecordingSettles
