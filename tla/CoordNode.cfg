SPECIFICATION FairSpec
CONSTANTS
    n1 = n1
    n2 = n2
    t1 = t1
    k1 = k1
    Node = {n1}
    Task = {}
    NoTask = NoTask
    Key = {k1}
    Requests = {"NodeHeartbeat", "Read", "AnnounceCache"}
    ClientSees = {"eof", "err", "silent"}
    ServerSees = {"err", "silent"}
    Faults = {"break", "garble", "restart"}
    Loops = {"reaper", "monitor"}
    Stalls = FALSE
    MaxFaults = 1
INVARIANTS
    RepliesMatch
PROPERTIES
    OldEndSparesNew
    DeadNodeIsEvicted
    LiveNodeReconnects
