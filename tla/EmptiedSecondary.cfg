SPECIFICATION LiveSpec
CONSTANTS
    N = 2
    AvailableWhileRunning = FALSE
    EmptiedRetried = TRUE
    PrimaryResultLost = FALSE
PROPERTIES
    UpgradeCompletes
CHECK_DEADLOCK FALSE
