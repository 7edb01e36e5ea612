SPECIFICATION Spec
CONSTANTS
    N = 2
    MaxRows = 4
    NoRow = noRow
    None = none
    Clock = 2
    MaxVersions = 3
    MaxEvents = 3
    MaxSaves = 1
CHECK_DEADLOCK FALSE
INVARIANTS BaselineWasGoogle ReviewReflectsRows OneRowPerEvent
PROPERTIES NoBlindWrite LocalEditKept
