SPECIFICATION Spec
CONSTANTS
    Threads = {t1, t2}
    MaxRestarts = 1
    MaxCalls = 2
    MaxStarts = 0
    MaxPages = 1
CHECK_DEADLOCK FALSE
INVARIANT
    ModernRequestsCarryEnvelope
