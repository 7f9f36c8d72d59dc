SPECIFICATION ListsSpec
CONSTANTS
    t1 = t1
    t2 = t2
    t3 = t3
    t4 = t4
    Thread <- MCThread
    Pri <- MCPri
    PriList = {run, wait}
    Active = active
    Fake = fake
    Null = null
    MaxThreads = 2
INVARIANTS ListsMatch
PROPERTY WalksEnd
