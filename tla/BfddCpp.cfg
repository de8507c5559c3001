\* Two neighbours; the second session restarts the counter.
SPECIFICATION Spec
CONSTANTS
    k1 = k1
    k2 = k2
    Keys <- MCKeys
    DiscrLimit = 1
    PeerDiscrs = {7}
    Polls = {TRUE, FALSE}
    Finals = {TRUE, FALSE}
    Says <- MCSays
    MaxPending = 1
    NoSession = NoSession
    NoPacket = NoPacket
    Nothing = Nothing
INVARIANTS
    TypeOK
    DiscrUnique
    SpeaksOwnDiscr
    LastWordLeaves
PROPERTIES
    PollAnswered
    PassServesAlive
    ImplementsBfdFsm
