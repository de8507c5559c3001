\* Two neighbours; every store may bring older copies back to light.
SPECIFICATION Spec
CONSTANTS
    a1 = a1
    a2 = a2
    Addrs <- MCAddrs
    Ports = {1}
    NGroups = 1
    Hash <- MCHash
    GroupMax = 2
    DiscrLimit = 2
    PeerDiscrs = {7}
    Polls = {FALSE}
    StoreMayFail = FALSE
    StoreMayRevert = TRUE
    MaxMoved = 1
    NoSession = NoSession
    NoKey = NoKey
INVARIANTS
    DiscrUnique
    StateMatchesLastWord
PROPERTIES
    SpeaksOwnDiscr
    AttachmentStable
CONSTRAINT FewHidden
SYMMETRY MCSymmetry
VIEW MCView
