SPECIFICATION FairSpec
CONSTANTS
    Signers = {s1, s2}
    Faulty = {s2}
    Requests = {r1}
    Scheduler = job
    LedgerThreshold = 2
    MaxThresholdUpdates = 1
    MaxFailures = 1
INVARIANTS SerialEnvelopeComplete
PROPERTIES DriftIsRepaired
CHECK_DEADLOCK FALSE
