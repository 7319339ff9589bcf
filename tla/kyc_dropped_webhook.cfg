SPECIFICATION ServicesSpec
CONSTANTS
    Services = {"kyc"}
    Requests = {r1}
    MaxFailures = 0
    MaxRetries = 1
    JobAttempts = 2
    MaxRequests = 3
    BreakerCalls = {r1, r2, r3}
    BreakerFailures = 4
    FailureThreshold = 2
    HalfOpenMaxCalls = 2
    SuccessThreshold = 2
    ResetTimeout = 1
    IndexerFailures = 3
    MaxLedger = 5
    EventsIn <- EventsPerLedger
    BatchSize = 2
    Limit = 2
    Lookback = 2
    MaxUpdates = 3
    Values = {"v", "w"}
    None = "none"
    MaxWrites = 2
    MaxMoves = 3
    Uploads = {r1}
    MaxDocuments = 2
    MaxRotations = 2
    MaxAttempts = 2
    MaxStalls = 1
    QueueFailures = 2
    Ticks = {r1, r2}
    CronPeriod = 2
    Backoff = 1
    FundsDelay = 1
    RecurringRetries = 1
    MaxTime = 4
    MaxRuns = 5
    RecurringTroubles = 1
PROPERTIES
    DroppedIsRetry
CHECK_DEADLOCK FALSE
