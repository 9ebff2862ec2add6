CONSTANTS
  Workers = {w1, w2}
  NoWorker = NoWorker
  Rows = {d1, d2}
  Events = {e1, e2}
  Recipients = {r1, r2}
  Nobody = Nobody
  Gates = {"open"}
  MaxAttempts = 2
  Faults = {"crash", "lock", "save", "enqueue"}
  MaxFaults = 1
  MaxRetries = 1
  MaxTurns = 0
SPECIFICATION Spec
SYMMETRY Symmetric
INVARIANTS
  OneHolder
  NobodyTwice
  OneLossPerFault
PROPERTIES
  OutcomeStays
CHECK_DEADLOCK FALSE
