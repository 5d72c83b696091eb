SPECIFICATION Spec
CONSTANTS
    N = 3
    AvailableWhileRunning = TRUE
INVARIANTS
    TypeOK
    
    MatchingBinaries
    LeaderHasDatabase
    
    JobsInTheirStage
    SecondaryJobsInTheirStage
    CheckpointFresh
    InitdbArgsKnown
    PausedOnTheWayDown
    
    TargetSupported
PROPERTIES
    VersionFollowsData
    ImplementsContract
