SPECIFICATION FairSpec
CONSTANTS
    p1 = p1
    p2 = p2
    f1 = f1
    f2 = f2
    g = g
    mbox = mbox
    sem = sem
    Thread <- MCThread
    Box = {mbox}
    Sem = {sem}
    Posts <- MCPosts
    Fetches <- MCFetches
    Waits <- MCWaits
    Signals <- MCSignals
    NSlots = 2
    Payload = {x}
    NULL = NULL
    End = End
    NAlarms = 1
INVARIANTS TypeOK ChainExact OneOwner
PROPERTIES PostReturns
