CONSTANTS
    Uids = {1, 2}
    Vals = {"a"}
    NoVal = "none"
    UserSize = 72
    AttSize = 22
    Timely = FALSE
    Paths = {"clear", "narrow"}
    MaxFaults = 0
    MaxEnrol = 0
    RawAttempts = 2
    Attempts = 2
    Cycles = 2
    ExplicitMss = FALSE
    ReadOps = {"users", "attendance", "connect"}
    MaxCalls = 1
SPECIFICATION MCFairSpec
INVARIANTS
    RightTable
    TimeoutRestored
PROPERTIES
    CallReturns
CHECK_DEADLOCK FALSE
