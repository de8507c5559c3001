\* Two pairs of rings, four frames.
SPECIFICATION Spec
CONSTANTS
    NRings = 2
    NSlots = 3
    Arrivals <- MCArrivals
    MaxFrames = 4
INVARIANTS
    TypeOK
    BuffersApart
    NothingLost
    HandShakeCompletes
PROPERTIES
    AllAnswered
CHECK_DEADLOCK FALSE
