CONSTANTS
    Requests = {"r1", "r2", "r3"}
    Tenant <- OneTenant
    Key <- SomeKeys
    NoKey = "no key"
    Documents <- Files
    MaxBytes = 1
    MaxPages = 2
    Limit = 3
    MaxFaults = 1
    MaxAgain = 1
SPECIFICATION Spec
CHECK_DEADLOCK FALSE
INVARIANTS
    QueuedIsRunnable
    RepeatReturnsOriginal
    BudgetKept
