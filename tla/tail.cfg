CONSTANTS
    Clients = {new, old}
    Sockets = {old}
    FromNow = {new}
    Slots = 1
    Pool = 1
    MaxLen = 1
    Batch = 2
    MaxEvents = 3
    MaxDrops = 1
SPECIFICATION FairSpec
CHECK_DEADLOCK FALSE
INVARIANTS
    TypeOK
    ResumeExact
    EndsUpToDate
PROPERTY StreamsEnd
