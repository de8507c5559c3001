\* A server and a client on two pages of seven bytes, with items of three and
\* five, and one process killed anywhere.
CONSTANTS
    NPages = 2
    Room = 7
    Slack = 1
    HeadSize = 1
    HF = 2
    Limit <- MCLimit
    Word = 64
    Server = server
    Procs = {server, client}
    Requests = {1, 3}
    RootSize = 1
    MaxKills = 1
    NoProc = NoProc
    NoItem = NoItem
SPECIFICATION Spec
INVARIANTS
    TypeOK
    BlocksApart
    RootShared
    OnceIsSafe
PROPERTIES
    RebuildSeesRoom
    ImplementsHeap
    WaiterGetsIn
CHECK_DEADLOCK FALSE
