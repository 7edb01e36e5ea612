SPECIFICATION Spec
CONSTANTS
    Devices = {d1, d2}
    Entries = {e1, e2}
    Cells = {1, 2}
    Values <- SomeValues
    Starting <- FirstPasses
    PageSize = 1
    CompactAfter = 2
    None = none
    MaxReads = 4
SYMMETRY Symmetry
CHECK_DEADLOCK FALSE
INVARIANTS OpenEqualsReplay LogKept PassMirrors NoFalseSuspect
PROPERTY DestroyedWasDeleted
