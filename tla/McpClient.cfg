SPECIFICATION Spec
CONSTANTS
    Threads = {t1, t2}
    MaxRestarts = 1
    MaxCalls = 2
    MaxStarts = 0
    MaxPages = 2
SYMMETRY ThreadSymmetry
CHECK_DEADLOCK FALSE
INVARIANTS
    AnswersFromOwnProcess
    RequestsReachOwnProcess
    NoLeakedProcess
    ReadyMeansNegotiated
    HealthyStaysUsable
    NoStrayPending
    LaunchesBounded
