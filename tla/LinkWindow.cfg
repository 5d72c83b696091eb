SPECIFICATION Spec
CONSTANTS
    Members = {n1, n2}
    Upgrades = 1
    MaxFaults = 1
    LinkWindow = TRUE
    SwapWindow = FALSE
INVARIANTS
    UpgradedDatabaseInDataNew
CHECK_DEADLOCK FALSE
