CONSTANTS
    Uids = {1, 2, 3}
    Vals = {"ana", "residue", "user", "admin"}
    NoVal = "none"
    Twins = {}
    UserSlot = 2
    AdminSlot = 3
    MaxRuns = 2
    MaxChanges = 1
SPECIFICATION ToolsSpec
INVARIANTS
    EarlyStageMeansUntouched
    OkMeansEverybody
PROPERTIES
    NobodySeenIsOverwritten
CHECK_DEADLOCK FALSE
