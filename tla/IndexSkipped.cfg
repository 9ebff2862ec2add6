CONSTANTS
  Workers = {w1}
  NoWorker = NoWorker
  Editors = {e1}
  Notes = {n1, n2}
  FirstNotes = n1
  StartTexts = {0}
  NoText = NoText
  NoDoc = NoDoc
  HasVectors = TRUE
  MaxTries = 2
  Faults = {}
  MaxFaults = 0
  MaxEdits = 2
SPECIFICATION Spec
INVARIANTS
  SkipHidesNothing
CHECK_DEADLOCK FALSE
