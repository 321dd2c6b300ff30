SPECIFICATION MCSpec
CONSTANTS
    Clients = 2
    Requests = 2
    Kinds = {"chat", "probe", "bad"}
    Ends = {"half", "closed"}
    MaxConnections = 2
    Capacity = 2
    OutputLimit = 2
INVARIANT
    AdmissionInv
PROPERTIES
    ReuseIsClean
    RequestsComplete
    ConnectionsEnd
CHECK_DEADLOCK FALSE
