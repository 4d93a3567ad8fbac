SPECIFICATION FairSpec
CONSTANTS
    t1 = t1
    t2 = t2
    Task = {t1, t2}
    NoTask = NoTask
    Descriptor <- Descriptors
    Name <- Names
    EmptyName = ""
    TraversalName = {"../app"}
    UnsafeName = {"job 1", "../app"}
    SanitizeOf <- Sanitized
    RepoDir = {"app", "lib"}
    DefaultWork = "default_work_id"
    UnknownRepo = "unknown"
    Host = "host"
    ToolCall <- ToolCalls
    SentinelOf <- Paths
    ExitCode = {0, 2}
    MaxAttempts <- Attempts
    MaxKeys = 2
INVARIANTS
    OneAttemptRuns
    OwnCodeUnlessAbandoned
PROPERTIES
    FulfilsContract
