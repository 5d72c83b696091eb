\* Two processes, the four resources the database needs and one it does not;
\* two events of any kind, one deleted and recreated cluster.
SPECIFICATION FairSpec
CONSTANTS
    Resources = {"claims", "secret", "config", "headless", "statefulset"}
    Operators = {o1, o2}
    MaxEdits = 1
    MaxWrites = 2
    MaxEvents = 2
    MaxRecreated = 1
    Lingering = FALSE
    CollectedFirst = TRUE
INVARIANTS
    TypeOK
    AnnotationsKept
    UpgradeCleared
    PasswordFits
PROPERTIES
    ResourcesReconciled
CHECK_DEADLOCK FALSE
