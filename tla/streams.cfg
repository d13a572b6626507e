CONSTANTS
    Regions = {"long", "short"}
    Length <- LongAndShort
    RegionConcurrency = 2
    MaxConcurrency = 1
    MaxRetries = 1
    MaxFaults = 1
SPECIFICATION FairSpec
CHECK_DEADLOCK FALSE
INVARIANTS
    TypeOK
    TextOfOneAttempt
    SeqOrdersDeltas
    EverythingRelayed
PROPERTY PageEnds
