\* Two neighbours fill a group of two.
SPECIFICATION Spec
CONSTANTS
    a1 = a1
    a2 = a2
    Addrs <- MCAddrs
    Ports = {1}
    NGroups = 1
    Hash <- MCHash
    GroupMax = 2
    DiscrLimit = 2
    PeerDiscrs = {7}
    Polls = {TRUE, FALSE}
    StoreMayFail = FALSE
    StoreMayRevert = FALSE
    MaxMoved = 1
    NoSession = NoSession
    NoKey = NoKey
INVARIANT
    EqualKeyOverwrites
VIEW MCView
