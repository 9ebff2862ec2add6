SPECIFICATION Spec
CONSTANTS
    Workers = {w1, w2}
    Jobs = {j1, j2}
    Requests = {"meeting.summarize"}
    Titles = {t1, t2}
    Nobody = Nobody
    MaxAttempts = 2
    MaxStalls = 1
    MaxFaults = 0
    MaxCrashes = 0
    MaxCalls = 0
CHECK_DEADLOCK FALSE
INVARIANT OneTaskPerTitle
