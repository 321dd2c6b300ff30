SPECIFICATION MCSpec
CONSTANTS
    Workers = {1, 2}
    Modes = {"parallel", "sealed"}
    Profiles = {FALSE, TRUE}
    LayerCount = 3
    FirstLayer = 1
    LastLayer = 1
    MaxToken = 2
    MaxFaults = 2
INVARIANTS
    TreeInv
    TokenInv
PROPERTY
    CallsReturn
