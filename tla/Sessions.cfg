SPECIFICATION MCSpec
CONSTANTS
    Requests = 3
    Capacity = 2
    Chunks = 2
    Tokens = 1
    Alone = 2
    Both = 2
    Mixed = 1
    MaxOutages = 2
INVARIANT
    PipelineInv
PROPERTIES
    JobsEnd
    ConversationsKept
    Answered
CHECK_DEADLOCK FALSE
