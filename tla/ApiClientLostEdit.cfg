SPECIFICATION EngineSpec
CONSTANTS
    LocalIds = {l1}
    ServerIds = {s1}
    Existing = {s1}
    Absent = absent
    Callers = {u1, u2}
    Drains = {1, 2, 3}
    MaxAttempts = 2
    MaxWrites = 3
    Settings <- Plain
    Tracked <- NoSettings
    Polls = {1, 2}
CHECK_DEADLOCK FALSE
INVARIANTS NoLostEdit
