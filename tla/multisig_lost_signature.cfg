SPECIFICATION Spec
CONSTANTS
    Signers = {s1, s2}
    Faulty = {}
    Requests = {r1, r2}
    Scheduler = job
    LedgerThreshold = 2
    MaxThresholdUpdates = 0
    MaxFailures = 0
INVARIANTS NoSignatureLost
CHECK_DEADLOCK FALSE
