CONSTANTS
    Uids = {1, 2}
    Vals = {"a", "b", "c"}
    NoVal = "none"
    Twins = {{"a", "b"}}
    UserSize = 72
    AttSize = 22
    Timely = TRUE
    Paths = {"clear", "narrow"}
    MaxFaults = 2
    MaxEnrol = 0
    RawAttempts = 2
    Attempts = 2
    Cycles = 2
    ExplicitMss = FALSE
    ReadOps = {"connect"}
    MutateOps = {"set", "delete", "reboot"}
    MaxCalls = 2
SPECIFICATION MCFairSpec
INVARIANTS
    MTypeOK
    TrueMeansShown
    AtMostOneWrite
    GuardedWrite
PROPERTIES
    TemplateSlotsKept
    ImplementsOutcome
    MutationReturns
CHECK_DEADLOCK FALSE
