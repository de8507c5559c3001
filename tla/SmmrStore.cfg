\* Two processes, two keys, one file of three usable pages.
SPECIFICATION Spec
CONSTANTS
    p1 = p1
    p2 = p2
    stays = stays
    fades = fades
    short = short
    other = other
    long = long
    Procs = {p1, p2}
    Keys = {stays, fades}
    MortalKeys = {fades}
    Values = {short, long}
    Stores <- MCStores
    HashOf <- MCHash
    PagesOf <- MCPages
    NFiles = 1
    NPages = 4
    HeaderPages = 1
    OffsetPages = 5
    FreeUnit = 128
    ReservedMax = 1
    MaxRemain = 258
    NodeCount = 4
    NodeMin = 2
    EmptyIndex <- EmptyTree
    Indexes <- MCIndexes
    IndexAdd <- AddTree
    IndexRemove <- RemoveTree
    IndexHits <- Hits
    NoItem = NoItem
    NoValue = NoValue
INVARIANTS
    TypeOK
    LiveItemsApart
    RoomIsSeen
PROPERTIES
    ImplementsKv
SYMMETRY MCSymmetry
VIEW MCView
CHECK_DEADLOCK FALSE
