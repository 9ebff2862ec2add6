SPECIFICATION AttendedSpec
CONSTANTS
  Tabs = {t1}
  Captures = {c1, c2}
  Direct = {c2}
  NoCapture = NoCapture
  NoItem = NoItem
  MaxChunks = 1
  MaxMishaps = 1
  MaxDiscards = 1
CHECK_DEADLOCK FALSE
INVARIANTS
  Kept
PROPERTIES
  GoneForGood
  RecordingSettles
  Released
