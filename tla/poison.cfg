CONSTANTS
    Jobs = {j1}
    Entries = {j1}
    JobOf <- EntryJob
    Workers = {w1}
    Slots = {s1}
    MaxAttempts = 2
    Troubles = {"crash"}
    MaxTroubles = 3
    MaxOverdue = 0
    Monitored = FALSE
SPECIFICATION Spec
CHECK_DEADLOCK FALSE
INVARIANT AttemptsBounded
