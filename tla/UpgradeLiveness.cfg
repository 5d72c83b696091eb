\* Two nodes and a scaledown that may end before the pods have gone.
SPECIFICATION LiveSpec
CONSTANTS
    N = 2
    AvailableWhileRunning = FALSE
    EmptiedRetried = FALSE
    PrimaryResultLost = FALSE
INVARIANTS
    MatchingBinaries
    SecondaryJobsInTheirStage
PROPERTIES
    UpgradeCompletes
CHECK_DEADLOCK FALSE
