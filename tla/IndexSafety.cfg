CONSTANTS
  Workers = {w1, w2}
  NoWorker = NoWorker
  Editors = {e1}
  Notes = {n1, n2}
  FirstNotes = n1
  StartTexts = {0, 1}
  NoText = NoText
  NoDoc = NoDoc
  HasVectors = TRUE
  MaxTries = 2
  Faults = {"crash", "lock", "inline", "embed", "enqueue"}
  MaxFaults = 1
  MaxEdits = 2
SPECIFICATION FairSpec
INVARIANTS
  LagIsSeen
  VersionIsHonest
PROPERTIES
  TranscriptNeverGoesBack
  EditsAreIndexed
CHECK_DEADLOCK FALSE
