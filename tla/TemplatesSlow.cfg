CONSTANTS
    Uids = {1, 2}
    Reserved = {}
    MaxFid = 0
    Chunks = 2
    RawAttempts = 2
    TemplateOps = {"templates", "fingerprints", "users", "connect"}
    Timely = FALSE
    MaxLate = 1
    MaxCalls = 3
    MaxFaults = 0
SPECIFICATION MCSpec
INVARIANTS
    OwnTemplates
    TableIsOfOneFetch
CHECK_DEADLOCK FALSE
