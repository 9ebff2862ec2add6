CONSTANTS
  s1 = s1
  s2 = s2
  Sessions <- OneSession
  Bots = {b1}
  NoBot = NoBot
  Targets <- OneLink
  WorkspaceOf <- SameWorkspace
  TargetOf <- SameLink
  MaxConcurrent = 1
  MaxConcurrentPerWorkspace = 1
  MaxTries = 2
  MaxStalls = 1
  Actors = {"stop", "send", "reconcile"}
  Refusals <- OneRefusal
  CancelReasons = {"rule_disabled"}
  SoftRev = 0
  MaxRev = 1
  MaxFaults = 0
SPECIFICATION Spec
PROPERTIES
  LiveSessionEnds
