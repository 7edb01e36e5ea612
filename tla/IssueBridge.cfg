SPECIFICATION Spec
CONSTANTS
    MaxIssues = 2
    MaxRows = 3
    Titles = {t1, t2}
    Statuses = {"Todo", "Doing"}
    None = none
    Null = null
    MaxEvents = 2
SYMMETRY Symmetry
CHECK_DEADLOCK FALSE
INVARIANTS CreatedOnce ReviewedOnly OneRowPerIssue SettledOrShown
PROPERTY OnlyObservedReplaced
