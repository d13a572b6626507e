CONSTANTS
    Regions = {"long"}
    Length <- LongAndShort
    RegionConcurrency = 1
    MaxConcurrency = 1
    MaxRetries = 1
    MaxFaults = 0
SPECIFICATION Spec
CHECK_DEADLOCK FALSE
INVARIANT NothingRepeated
