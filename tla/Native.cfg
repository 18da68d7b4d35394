CONSTANTS
    MaxRecs = 3
    MaxChunk = 2
    Tries = 2
    NativeOps = {"sizes", "users", "templates", "log"}
    MaxCalls = 2
    MaxGrowth = 1
    MaxFaults = 2
SPECIFICATION MCSpec
INVARIANTS
    NTypeOK
    WholeTable
    CleanWithoutFault
PROPERTIES
    NativeReturns
CHECK_DEADLOCK FALSE
