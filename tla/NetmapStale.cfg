\* One pair of small rings.
SPECIFICATION Spec
CONSTANTS
    NRings = 1
    NSlots = 2
    Arrivals <- MCArrivals
    MaxFrames = 4
INVARIANT
    RedirectOnly
CHECK_DEADLOCK FALSE
