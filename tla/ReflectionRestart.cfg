SPECIFICATION LiveSpec
CONSTANTS
    N = 2
    None = none
    Limits <- OneRestart
PROPERTIES AgreedChangeWins
