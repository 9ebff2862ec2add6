SPECIFICATION FairSpec
CONSTANTS
  Callers = {c1, c2}
  NoToken = NoToken
  Wide = TRUE
  Faults = {"crash", "lost", "write", "slow", "unrevoked", "withdrawn"}
  MaxGrants = 2
  MaxRefreshes = 2
  MaxFaults = 1
CHECK_DEADLOCK FALSE
INVARIANTS
  
  StatusIsTrue
  
