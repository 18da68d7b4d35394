CONSTANTS
    Uids = {0, 1, 2}
    Badges = {0, 1, 7}
    Times = {0, 1}
    Kinds = {"in", "out"}
    MaxRecs = 3
    MaxPunches = 2
SPECIFICATION MCSpec
INVARIANTS
    RTypeOK
    PersonsListedOnce
    EverySlotAccounted
    NoPunchLost
    BadgeDecides
CHECK_DEADLOCK FALSE
