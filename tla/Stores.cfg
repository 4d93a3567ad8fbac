SPECIFICATION StoresSpec
CONSTANTS
    tiny = tiny
    small = small
    medium = medium
    large = large
    t1 = t1
    Nothing = Nothing
    Content = {tiny, small, medium, large}
    Size <- Sizes
    Input <- PlainInputs
    max_bytes = 3
    MaxAccesses = 2
    MaxCrashes = 1
    MaxErrors = 1
    Task = {t1}
    Ttl = 1
    DayLength = 2
    max_events = 1
    MaxTime = 2
    MaxFailures = 1
INVARIANTS
    IndexMatchesDirectory
    CompletedIsLogged
PROPERTIES
    EvictsLeastRecent
    IsLeaseStore
    LiveLeaseIsRecovered
CHECK_DEADLOCK FALSE
