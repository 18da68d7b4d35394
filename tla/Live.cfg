CONSTANTS
    EventSizes = {12, 32, 36, 52}
    LiveOps = {"capture", "enroll"}
    MaxEvents = 3
    MaxCalls = 2
    MaxFaults = 1
SPECIFICATION MCSpec
INVARIANTS
    CleanEnd
    EventsAccounted
    EnrolReported
PROPERTIES
    LiveEnds
CHECK_DEADLOCK FALSE
