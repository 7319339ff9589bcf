SPECIFICATION Spec
CONSTANTS
    Signers = {s1, s2}
    Faulty = {}
    Requests = {r1}
    Scheduler = job
    LedgerThreshold = 2
    MaxThresholdUpdates = 0
    MaxFailures = 0
INVARIANTS FailedMeansNotPaid
CHECK_DEADLOCK FALSE
