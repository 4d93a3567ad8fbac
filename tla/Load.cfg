SPECIFICATION PartSpec
CONSTANTS
    Producer = {p1, p2}
    Consumer = {c1, c2}
    Task = {1, 2, 3}
    NoTask = NoTask
    PriorityOf <- Priorities
    max_queue_depth = 1
    moderate_threshold = 0
    high_threshold = 100
    critical_threshold = 200
    Word = 100
    MaxRecoveries = 1
    r1 = r1
    r2 = r2
    r3 = r3
    t1 = t1
    t2 = t2
    g1 = g1
    Nobody = Nobody
    Runner = {r1, r2}
    GuardTask = {t1, t2}
    Goal = {g1}
    TaskOf <- RunnerTask
    GoalOf <- TaskGoal
    GuardPriority <- NormalAndCritical
    max_tokens = 1
    soft_timeout = TRUE
    MaxRuns <- FirstTwice
    SharePriority <- LowAndCritical
    Policies <- Aging
    MaxRecords = 1
    MaxAge = 4
    MaxResets = 1
INVARIANTS
    DepthAccounts
    OvershootBounded
    GoalExclusive
PROPERTIES
    PriorityRespected
    CriticalServed
    TimeoutEnforced
    NoFalseAlarm
    NoStarvation
