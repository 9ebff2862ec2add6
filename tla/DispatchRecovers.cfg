CONSTANTS
  s1 = s1
  s2 = s2
  Sessions <- OneSession
  Bots = {}
  NoBot = NoBot
  Targets <- OneLink
  WorkspaceOf <- SameWorkspace
  TargetOf <- SameLink
  MaxConcurrent = 1
  MaxConcurrentPerWorkspace = 1
  MaxTries = 2
  MaxStalls = 1
  Actors = {"join", "send", "reconcile"}
  Refusals <- OneRefusal
  CancelReasons = {"rule_disabled"}
  SoftRev = 1
  MaxRev = 5
  MaxFaults = 1
SPECIFICATION Spec
PROPERTIES
  ScheduledIsDispatched
