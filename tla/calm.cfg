CONSTANTS
    Jobs = {j1, j2}
    Entries = {j1, j2}
    JobOf <- EntryJob
    Workers = {w1, w2}
    Slots = {s1}
    MaxAttempts = 2
    Troubles = {}
    MaxTroubles = 0
    MaxOverdue = 1
    Monitored = TRUE
SPECIFICATION Spec
SYMMETRY Symmetry
CHECK_DEADLOCK FALSE
INVARIANTS
    SingleExecution
    EffectsOnce
    AttemptsBounded
    DepthNeverHides
PROPERTY TerminalIsFinal
