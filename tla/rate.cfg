CONSTANTS
    Gateways = {"a", "b"}
    Skew <- Ahead
    Drift = 1
    Cost = 2
    Depth = 4
    Grace = 1
    Second = 2
    Horizon = 10
    MaxFaults = 1
    MaxBack = 3
SPECIFICATION Spec
CHECK_DEADLOCK FALSE
INVARIANTS
    RateBounded
PROPERTY HonestRetry
