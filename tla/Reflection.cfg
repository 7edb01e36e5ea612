SPECIFICATION LiveSpec
CONSTANTS
    N = 4
    None = none
    Limits <- FaultsAndChanges
INVARIANTS CopiedOnce
PROPERTIES EventuallyConverged LastChangeWins
