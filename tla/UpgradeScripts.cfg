\* Three members, two upgrades one after the other, three kills or repetitions.
SPECIFICATION FairSpec
CONSTANTS
    Members = {n1, n2, n3}
    Upgrades = 2
    MaxFaults = 3
    LinkWindow = FALSE
    SwapWindow = FALSE
INVARIANTS
    TypeOK
    LeaderKeepsDatabase
    WholeOrEmpty
    UpgradedDatabaseInDataNew
    ConfigurationKept
PROPERTIES
    UpgradeEnds
CHECK_DEADLOCK FALSE
