SPECIFICATION FairSpec
CONSTANTS
    MaxNodes = 2
    MaxEdits = 2
    MaxWrites = 1
    MaxFaults = 0
    Careful = TRUE
    Hasty = FALSE
    Upgrades = TRUE
    DuringUpgrade = TRUE
PROPERTIES
    UpgradeEnds
CHECK_DEADLOCK FALSE
