SPECIFICATION LiveSpec
CONSTANTS
    Ids = {"a", "b", "c"}
    Initial <- TwoItems
    Modes = {"validators", "plain", "offset", "page"}
    Manual = {"user"}
    Polled = {"tick1", "tick2"}
    PageSize = 1
    MaxPages = 2
    MaxRev = 3
    MaxExtras = 1
INVARIANTS SyncMirrors
PROPERTIES NoItemGoesBack PollingCatchesUp
CHECK_DEADLOCK FALSE
