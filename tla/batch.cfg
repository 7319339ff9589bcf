SPECIFICATION FairSpec
CONSTANTS
    Nobody = Nobody
    Workers = {w1, w2}
    Chunks = 2
    MaxAttempts = 2
    MaxOthers = 2
    MaxFailures = 1
    MaxExpiries = 1
INVARIANTS TypeOK PaidIsAcknowledged SucceededIsPaid OneSubmitter
PROPERTIES RequestEnds
CHECK_DEADLOCK FALSE
