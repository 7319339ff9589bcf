SPECIFICATION ServicesSpec
CONSTANTS
    Services = {"breaker", "indexer", "kyc", "sep31", "cache", "wallet", "documents", "queue", "recurring"}
    Requests = {r1, r2}
    MaxFailures = 1
    MaxRetries = 1
    JobAttempts = 2
    MaxRequests = 2
    BreakerCalls = {r1, r2, r3}
    BreakerFailures = 4
    FailureThreshold = 2
    HalfOpenMaxCalls = 2
    SuccessThreshold = 2
    ResetTimeout = 1
    IndexerFailures = 3
    MaxLedger = 5
    EventsIn <- EventsPerLedger
    BatchSize = 2
    Limit = 2
    Lookback = 2
    MaxUpdates = 3
    Values = {"v", "w"}
    None = "none"
    MaxWrites = 2
    MaxMoves = 3
    Uploads = {r1}
    MaxDocuments = 2
    MaxRotations = 2
    MaxAttempts = 2
    MaxStalls = 1
    QueueFailures = 2
    Ticks = {r1, r2}
    CronPeriod = 2
    Backoff = 1
    FundsDelay = 1
    RecurringRetries = 1
    MaxTime = 4
    MaxRuns = 5
    RecurringTroubles = 1
INVARIANTS
    ServicesTypeOK
    ProbesAreFew
    CleanIsComplete
    Accounted
    QuoteUsedOnce
    ReportsAreTrue
    DeadLettered
    PaymentsAreExplained
PROPERTIES
    Recovers
    CatchesUp
    QueuesDrain
    Reconciled
    Converges
    AlertsAreTrue
    DueIsServed
CHECK_DEADLOCK FALSE
