CONSTANTS
    Uids = {1, 2, 3}
    Reserved = {2}
    MaxFid = 1
    Chunks = 2
    RawAttempts = 3
    TemplateOps = {"scan", "fingerprints", "uncertified", "templates", "users", "connect"}
    Timely = TRUE
    MaxLate = 1
    MaxCalls = 2
    MaxFaults = 2
SPECIFICATION MCFairSpec
INVARIANTS
    TTypeOK
    ScansBeginClean
    ReportIsTrue
    ScanIsComplete
    TableIsCurrent
PROPERTIES
    BufferReleased
    TemplateCallReturns
CHECK_DEADLOCK FALSE
