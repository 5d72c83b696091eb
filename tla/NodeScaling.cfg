\* Up to three nodes, two edits of the spec, one transaction and one fault; a
\* node is removed only while another one has everything.
SPECIFICATION FairSpec
CONSTANTS
    MaxNodes = 3
    MaxEdits = 2
    MaxWrites = 1
    MaxFaults = 1
    Careful = TRUE
    Hasty = FALSE
    Upgrades = TRUE
    DuringUpgrade = FALSE
INVARIANTS
    TypeOK
    CommittedDataKept
PROPERTIES
    ClaimsFollowNodes
    NodesServed
    UpgradeEnds
CHECK_DEADLOCK FALSE
