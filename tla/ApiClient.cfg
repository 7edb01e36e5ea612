SPECIFICATION EngineLiveSpec
CONSTANTS
    LocalIds = {l1}
    ServerIds = {s1, s2, s3}
    Existing = {s1}
    Absent = absent
    Callers = {u1, u2}
    Drains = {1, 2, 3}
    MaxAttempts = 2
    MaxWrites = 3
    Settings <- Either
    Tracked <- ThroughEngine
    Polls = {1, 2}
CHECK_DEADLOCK FALSE
INVARIANTS PendingListed ConfirmedCopies SyncedWasConfirmed FailedIsRolledBack
PROPERTIES WritesInOrder EventuallyConfirmed ChangesSettle
