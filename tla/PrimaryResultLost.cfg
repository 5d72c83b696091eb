SPECIFICATION LiveSpec
CONSTANTS
    N = 2
    AvailableWhileRunning = FALSE
    EmptiedRetried = FALSE
    PrimaryResultLost = TRUE
PROPERTIES
    UpgradeCompletes
CHECK_DEADLOCK FALSE
