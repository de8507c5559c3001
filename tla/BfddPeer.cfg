\* One neighbour; any three faults.
SPECIFICATION PeerSpec
CONSTANTS
    a1 = a1
    Addrs = {a1}
    Ports = {1}
    NGroups = 1
    Hash <- MCHash
    GroupMax = 2
    DiscrLimit = 4
    PeerDiscrs = {7, 8}
    Polls = {TRUE, FALSE}
    StoreMayFail = FALSE
    StoreMayRevert = FALSE
    MaxMoved = 1
    NoSession = NoSession
    NoKey = NoKey
    Neighbour <- MCNeighbour
    MaxFaults = 3
INVARIANTS
    PeerTypeOK
    HandShake
PROPERTIES
    Converges
    PollEnds
