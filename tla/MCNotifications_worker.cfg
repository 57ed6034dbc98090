SPECIFICATION LiveSpec
CONSTANTS
    N = 2
    Handler = {h1}
    MaxRetries = 2
    PendingLimit = 1
    FailedLimit = 1
    MaxResets = 1
    MaxFaults = 1
INVARIANTS
    TypeOK
    DeliveriesAccounted
    AttemptsBounded
PROPERTIES
    Settles
    PendingRetryIsPickedUp
CHECK_DEADLOCK FALSE
