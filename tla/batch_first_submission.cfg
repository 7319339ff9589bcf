SPECIFICATION Spec
CONSTANTS
    Nobody = Nobody
    Workers = {w1}
    Chunks = 1
    MaxAttempts = 2
    MaxOthers = 0
    MaxFailures = 0
    MaxExpiries = 0
INVARIANTS SubmitsNextSequence
CHECK_DEADLOCK FALSE
