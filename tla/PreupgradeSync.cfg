\* The preupgrade-sync job of three servers, somebody else writing once and
\* one fault; rows of former connections do not linger.
SPECIFICATION FairSpec
CONSTANTS
    Members = {m1, m2, m3}
    NoMember = NoMember
    MaxWrites = 1
    MaxFaults = 1
    FormerRows = FALSE
INVARIANTS
    TypeOK
    
PROPERTIES
    LatestCheckpointShared
    SyncEnds
CHECK_DEADLOCK FALSE
