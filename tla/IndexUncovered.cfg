CONSTANTS
  Workers = {w1, w2}
  NoWorker = NoWorker
  Editors = {e1}
  Notes = {n1, n2}
  FirstNotes = n1
  StartTexts = {1}
  NoText = NoText
  NoDoc = NoDoc
  HasVectors = TRUE
  MaxTries = 2
  Faults = {"lock"}
  MaxFaults = 1
  MaxEdits = 3
SPECIFICATION Spec
INVARIANTS
  RestingHybridIsCovered
CHECK_DEADLOCK FALSE
