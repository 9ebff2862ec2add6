CONSTANTS
  Workers = {w1, w2}
  NoWorker = NoWorker
  Rows = {d1}
  Events = {e1}
  Recipients = {r1}
  Nobody = Nobody
  Gates = {"open", "shut", "barred", "off"}
  MaxAttempts = 2
  Faults = {"crash", "slow", "save", "unsure", "enqueue"}
  MaxFaults = 1
  MaxRetries = 0
  MaxTurns = 1
SPECIFICATION FairSpec
PROPERTIES
  DeliveryEnds
CHECK_DEADLOCK FALSE
