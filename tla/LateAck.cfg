CONSTANTS
    Uids = {1, 2}
    Vals = {"a", "b"}
    NoVal = "none"
    Twins = {}
    UserSize = 72
    AttSize = 22
    Timely = FALSE
    Paths = {"clear"}
    MaxFaults = 1
    MaxEnrol = 0
    RawAttempts = 2
    Attempts = 2
    Cycles = 2
    ExplicitMss = FALSE
    ReadOps = {}
    MutateOps = {"set"}
    MaxCalls = 1
SPECIFICATION MCSpec
INVARIANTS
    TrueMeansDone
CHECK_DEADLOCK FALSE
