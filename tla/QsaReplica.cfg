CONSTANTS
    SlotCount = 3
    GroupMax = 2
    MaxSerial = 6
SPECIFICATION FairSpec
INVARIANT
    RingInv
PROPERTIES
    ImplementsQueue
    DrainIsComplete
    EverythingReturns
CHECK_DEADLOCK FALSE
