SPECIFICATION Spec
CONSTANTS
    Signers = {s1, s2}
    Faulty = {s2}
    Requests = {r1, r2}
    Scheduler = r1
    LedgerThreshold = 1
    MaxThresholdUpdates = 1
    MaxFailures = 1
INVARIANTS TypeOK SubmittedIsApplied CountIsBacked ReadyIsEarned
PROPERTIES KeepsPromise
CHECK_DEADLOCK FALSE
