SPECIFICATION BatchSpec
CONSTANTS
    Task = {1, 2, 3, 4, 5}
    Submission <- BatchSubmissions
    Attempt = {1, 2}
    FairnessPolicies <- GraphFairness
    StarvationPolicies <- GraphStarvation
    Pooled = TRUE
    Capacity <- TwoOfEach
    Word = 8
    MaxTime = 0
INVARIANTS
    InDegreeCountsIncomplete
    PoolAccounts
PROPERTIES
    BatchSettles
