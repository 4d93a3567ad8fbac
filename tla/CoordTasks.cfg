SPECIFICATION Spec
CONSTANTS
    n1 = n1
    n2 = n2
    t1 = t1
    k1 = k1
    Node = {n1, n2}
    Task = {t1}
    NoTask = NoTask
    Key = {}
    Requests = {"Dequeue", "Requeue", "Discard", "InsertLease", "GetLease",
                "UpdateLease", "RemoveLease", "Read"}
    ClientSees = {"eof"}
    ServerSees = {"err"}
    Faults = {"garble"}
    Loops = {"reaper"}
    Stalls = FALSE
    MaxFaults = 1
SYMMETRY Nodes
INVARIANTS
    HeldByOne
