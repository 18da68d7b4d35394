CONSTANTS
    MaxRecs = 3
    MaxChunk = 2
    Tries = 2
    NativeOps = {"log"}
    MaxCalls = 1
    MaxGrowth = 1
    MaxFaults = 1
SPECIFICATION MCSpec
INVARIANTS
    ModeRestored
CHECK_DEADLOCK FALSE
