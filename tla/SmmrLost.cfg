\* One process that stores under one key, with the code's sizes of nodes.
SPECIFICATION Spec
CONSTANTS
    p1 = p1
    p2 = p2
    stays = stays
    fades = fades
    short = short
    other = other
    long = long
    Procs = {p1}
    Keys = {stays}
    MortalKeys = {}
    Values = {short, other}
    Stores <- MCStores
    HashOf <- MCHash
    PagesOf <- MCPages
    NFiles = 1
    NPages = 8
    HeaderPages = 1
    OffsetPages = 16
    FreeUnit = 128
    ReservedMax = 1
    MaxRemain = 140
    NodeCount = 4
    NodeMin = 2
    EmptyIndex <- EmptyTree
    Indexes <- MCIndexes
    IndexAdd <- AddTree
    IndexRemove <- RemoveTree
    IndexHits <- Hits
    NoItem = NoItem
    NoValue = NoValue
INVARIANT
    LastStoredIsFound
CHECK_DEADLOCK FALSE
