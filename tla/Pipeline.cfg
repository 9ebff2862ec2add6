\* Two jobs of any kind, one title; an error, a process that dies as often as it
\* takes for a job to be given up, one change by somebody.
SPECIFICATION Spec
CONSTANTS
    Workers = {w1}
    Jobs = {j1, j2}
    Requests = {"media.ingest", "artifact.import", "meeting.summarize", "meeting.index"}
    Titles = {t1}
    Nobody = Nobody
    MaxAttempts = 2
    MaxStalls = 1
    MaxFaults = 1
    MaxCrashes = 2
    MaxCalls = 1
SYMMETRY Symmetry
INVARIANTS
    OneTaskPerTitle
    AnnouncedOnce
    ShowsTheOutcome
    RowsAgree
PROPERTIES
    UserWorkKept
CHECK_DEADLOCK FALSE
