SPECIFICATION MCSpec
CONSTANTS
    N = 2
    Chain <- MCChain
    Slots = {0, 1}
    MaxSteps = 2
    MaxTries = 4
    MayCrash = TRUE
    BlockOwner <- MCChain
    Frames = 4
    Window = 3
    Micro = 2
    LinkCap = 1
    MaxTokens = 4
    MaxSession = 2
    MaxFaults = 1
    SessionSlots = {0, 1}
    V = 5
    LogitChoices <- MCLogits
    MaxIndex = 2
    MaxBegins = 1
    Wedges = 1
    SamplerModes = {"greedy", "penalised", "sampled"}
    LongTimeouts = FALSE
INVARIANTS
    TransactionInv
    BlocksInv
    SplitInv
PROPERTIES
    CallsReturn
    BatchStepsEnd
