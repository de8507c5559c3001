\* Two neighbours in one group, every store may fail; the database answers
\* with what was last stored.
SPECIFICATION Spec
CONSTANTS
    a1 = a1
    a2 = a2
    Addrs <- MCAddrs
    Ports = {1}
    NGroups = 1
    Hash <- MCHash
    GroupMax = 3
    DiscrLimit = 2
    PeerDiscrs = {1}
    Polls = {TRUE, FALSE}
    StoreMayFail = TRUE
    StoreMayRevert = FALSE
    MaxMoved = 1
    NoSession = NoSession
    NoKey = NoKey
INVARIANTS
    TypeOK
    DirectorySound
PROPERTIES
    ImplementsBfdFsm
    PassReachesAll
    SaysWhatIsStored
SYMMETRY MCSymmetry
VIEW MCViewFailed
