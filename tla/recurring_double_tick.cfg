SPECIFICATION Spec
CONSTANTS
    Workers = {w1, w2}
    CronPeriod = 2
    Backoff = 1
    FundsDelay = 1
    MaxRetries = 1
    MaxTime = 4
    MaxRuns = 3
    MaxTroubles = 1
INVARIANTS PaidOncePerOccurrence
CHECK_DEADLOCK FALSE
