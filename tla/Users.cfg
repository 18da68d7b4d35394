CONSTANTS
    MaxUid = 4
    MaxBadge = 3
    MaxOps = 6
SPECIFICATION USpec
INVARIANTS
    AutoSlotFree
CHECK_DEADLOCK FALSE
