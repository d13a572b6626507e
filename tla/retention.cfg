CONSTANTS
    TTL = 1
    Database = TRUE
    Horizon = 3
    MaxFaults = 1
SPECIFICATION FairSpec
INVARIANTS
    TypeOK
    FreshKept
PROPERTIES
    CompletedIsServed
    OldFilesGo
