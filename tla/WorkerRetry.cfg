SPECIFICATION FairSpec
CONSTANTS
    w1 = w1
    w2 = w2
    t1 = t1
    Worker = {w1, w2}
    Task = {t1}
    NoTask = NoTask
    Policy <- TwoAttempts
    ExitCodes = {1, 2}
    Cancellable = {}
    Refusals = FALSE
    Faults = FALSE
    Crashes = 0
    MaxSubmits = 1
    MaxQueue = 2
PROPERTIES
    RetryIsTakenUp
CHECK_DEADLOCK FALSE
