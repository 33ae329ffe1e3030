SPECIFICATION FairSpec
CONSTANTS
    Threads = {t1, t2}
    MaxRestarts = 0
    MaxCalls = 1
    MaxStarts = 1
    MaxPages = 1
CHECK_DEADLOCK FALSE
PROPERTY
    CallsEnd
