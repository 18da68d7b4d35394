CONSTANTS
    Uids = {1, 2}
    Vals = {"a"}
    NoVal = "none"
    UserSize = 72
    AttSize = 22
    Timely = TRUE
    Paths = {"clear", "narrow"}
    MaxFaults = 2
    MaxEnrol = 1
    RawAttempts = 3
    Attempts = 3
    Cycles = 3
    ExplicitMss = FALSE
    ReadOps = {"users", "attendance", "connect"}
    MaxCalls = 2
SPECIFICATION MCSpec
INVARIANTS
    FreshTable
    CleanAfterRead
    ReadsSurviveOneFault
    NoNeedlessRecovery
CHECK_DEADLOCK FALSE
