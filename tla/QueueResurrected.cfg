SPECIFICATION RecordingSpec
CONSTANTS
  Tabs = {t1}
  Captures = {c1}
  Direct = {}
  NoCapture = NoCapture
  NoItem = NoItem
  MaxChunks = 1
  MaxMishaps = 1
  MaxDiscards = 1
CHECK_DEADLOCK FALSE
PROPERTIES
  DiscardStays
