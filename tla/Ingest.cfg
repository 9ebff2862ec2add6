SPECIFICATION FairSpec
CONSTANTS
  Requests = {r1, r2, r3}
  NoRequest = NoRequest
  MaxAccidents = 2
CHECK_DEADLOCK FALSE
INVARIANTS
  AnsweredIsStored
  OneJob
  NoOrphan
PROPERTIES
  Processed
