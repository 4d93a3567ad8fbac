SPECIFICATION Spec
CONSTANTS
    Task = {1, 2, 3, 4}
    Submission <- GraphSubmissions
    Attempt = {0}
    FairnessPolicies <- GraphFairness
    StarvationPolicies <- GraphStarvation
    Pooled = FALSE
    Capacity <- TwoOfEach
    Word = 8
    MaxTime = 0
INVARIANTS
    TypeOK
    DepsCompleteFirst
    HeapMatchesReady
    DependencyFailedHasCause
PROPERTIES
    FailureCascades
    TerminalIsFinal
