\* One node.
SPECIFICATION LiveSpec
CONSTANTS
    N = 1
    AvailableWhileRunning = TRUE
    EmptiedRetried = FALSE
    PrimaryResultLost = FALSE

    
PROPERTIES
    ImplementsContract
    WantedVersionReached
