SPECIFICATION FairSpec
CONSTANTS
    w1 = w1
    w2 = w2
    t1 = t1
    Worker = {w1, w2}
    Task = {t1}
    NoTask = NoTask
    Policy <- TwoAttempts
    ExitCodes = {1, 2}
    Cancellable = {}
    Refusals = TRUE
    Faults = TRUE
    Crashes = 1
    MaxSubmits = 1
    MaxQueue = 2
PROPERTIES
    AlwaysReturns
    OrphanIsReaped
CHECK_DEADLOCK FALSE
