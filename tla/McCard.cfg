SPECIFICATION FairSpec
CONSTANTS
    m1 = m1
    m2 = m2
    Block <- MCBlock
    NClusters = 2
    Meta <- MCMeta
    Val = {a, b}
    Erased = Erased
    Bad = Bad
    None = None
    NCache = 2
    Faults = {"read"}
INVARIANTS ReadsLast
PROPERTIES FlushDurable CardStoreSpec CardCallsEnd
