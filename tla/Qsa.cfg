SPECIFICATION Spec
CONSTANTS
    N = 2
    Ring = TRUE
    QueueDepth = 2
    WriteDepth = 1
    PageLimit = 3
    MaxSession = 2
    MaxFetch = 4
    MaxFaults = 1
INVARIANT
    RecordsExact
PROPERTIES
    PagesSafe
    CallsReturn
    ReadsSafe
    DrainEnds
