SPECIFICATION MCSpec
CONSTANTS
    N = 3
    Manifests = {m1, m2}
    Crashes = 1
INVARIANT
    StartInv
PROPERTIES
    WholeRingStarts
    
    FleetComesBack
