SPECIFICATION LiveSpec
CONSTANTS
    Callers = {c1, c2}
    LeaseTime = 2
    Skew = 1
    Lifetimes = {2}
    Attempts = 2
    MaxTime = 3
    MaxCalls = 3
    MaxFaults = 1
CHECK_DEADLOCK FALSE
INVARIANTS OneRefresher TokenSpentOnce StoredIsCurrent
PROPERTIES CallsReturn
