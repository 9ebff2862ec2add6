SPECIFICATION FairSpec
CONSTANTS
  Requests = {r1, r2}
  NoRequest = NoRequest
  MaxAccidents = 0
CHECK_DEADLOCK FALSE
INVARIANTS
  AnsweredIsKept
