CONSTANTS
  Workers = {w1, w2}
  NoWorker = NoWorker
  Rows = {d1}
  Events = {e1}
  Recipients = {r1}
  Nobody = Nobody
  Gates = {"open"}
  MaxAttempts = 2
  Faults = {"lock"}
  MaxFaults = 1
  MaxRetries = 0
  MaxTurns = 0
SPECIFICATION FairSpec
PROPERTIES
  DeliveryEnds
CHECK_DEADLOCK FALSE
