SPECIFICATION Spec
CONSTANTS
    Task = {1, 2, 3}
    Submission <- PoolSubmissions
    Attempt = {1}
    FairnessPolicies <- AgingFairness
    StarvationPolicies <- AgingStarvation
    Pooled = TRUE
    Capacity <- TwoOfEach
    Word = 8
    MaxTime = 1
INVARIANTS
    NoOvercommit
    NeverDemoted
