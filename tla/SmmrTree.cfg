\* Nine items, six of one hash, in nodes of at most two keys.
SPECIFICATION Spec
CONSTANTS
    NodeCount = 2
    NodeMin = 1
    Items <- MCItems
INVARIANTS
    TreeSound
    SearchFindsAll
    StopIsReached
PROPERTIES
    ImplementsIndex
