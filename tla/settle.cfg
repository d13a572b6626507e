CONSTANTS
    Jobs = {j1}
    Entries = {j1, again}
    JobOf <- EntryJob
    Workers = {w1, w2}
    Slots = {s1}
    MaxAttempts = 2
    Troubles = {"crash", "stop", "fault", "missed", "expiry", "repeat"}
    MaxTroubles = 1
    MaxOverdue = 1
    Monitored = FALSE
SPECIFICATION FairSpec
CHECK_DEADLOCK FALSE
INVARIANTS
    NoSilentLoss
    CompletedIsDurable
PROPERTIES
    AtLeastOnce
    EveryJobSettles
    DrainEnds
