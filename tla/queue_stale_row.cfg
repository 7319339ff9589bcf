SPECIFICATION Spec
CONSTANTS
    Requests = {r1}
    MaxAttempts = 2
    MaxStalls = 1
    MaxRequests = 0
    MaxFailures = 0
INVARIANTS ResultStored
CHECK_DEADLOCK FALSE
