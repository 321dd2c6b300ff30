SPECIFICATION MCSpec
CONSTANTS
    Workers = {1, 2, 3}
    ShardRows = 2
    HeadCount = 3
    MaxToken = 2
    MaxFaults = 2
INVARIANTS
    LookupInv
    LookupExact
    LocalityExact
    SessionExact
PROPERTY
    ReplaySafe
CHECK_DEADLOCK FALSE
