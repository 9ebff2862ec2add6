SPECIFICATION RecordingSpec
CONSTANTS
  Tabs = {t1, t2}
  Captures = {c1}
  Direct = {}
  NoCapture = NoCapture
  NoItem = NoItem
  MaxChunks = 2
  MaxMishaps = 2
  MaxDiscards = 0
CHECK_DEADLOCK FALSE
SYMMETRY Symmetric
INVARIANTS
  RecordingTypeOK
  Kept
  StoredWhole
  ItemWhole
