\* A send fails in a transmission pass over two groups.
SPECIFICATION Spec
CONSTANTS
    a1 = a1
    a2 = a2
    Addrs <- MCAddrs
    Ports = {1}
    NGroups = 2
    Hash <- MCHash
    GroupMax = 3
    DiscrLimit = 2
    PeerDiscrs = {7}
    Polls = {TRUE, FALSE}
    StoreMayFail = FALSE
    StoreMayRevert = FALSE
    MaxMoved = 1
    NoSession = NoSession
    NoKey = NoKey
PROPERTY
    CutSparesOtherGroups
VIEW MCView
