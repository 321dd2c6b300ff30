SPECIFICATION Spec
CONSTANTS
    Clients = 1
    Requests = 1
    Kinds = {"chat"}
    Ends = {"closed"}
    MaxConnections = 1
    Capacity = 1
    OutputLimit = 2
INVARIANT EngineTouchesLive
CHECK_DEADLOCK FALSE
