CONSTANTS
  Workers = {w1}
  NoWorker = NoWorker
  Rows = {d1, d2}
  Events = {e1, e2}
  Recipients = {r1, r2}
  Nobody = Nobody
  Gates = {"open", "shut"}
  MaxAttempts = 2
  Faults = {"save"}
  MaxFaults = 1
  MaxRetries = 0
  MaxTurns = 2
SPECIFICATION Spec
INVARIANTS
  NobodyTwice
CHECK_DEADLOCK FALSE
