SPECIFICATION FairSpec
CONSTANTS
    Caller = {c1, c2, c3}
    failure_threshold = 2
    half_open_max_calls = 2
    half_open_success_threshold = 67
    Word = 1000
    Drops = TRUE
    DirectReports = TRUE
    MaxSuccesses = 3
INVARIANTS
    ProbesLimited
PROPERTIES
    OpenWaitsForTimeout
    ClosedByProbes
    Recovers
