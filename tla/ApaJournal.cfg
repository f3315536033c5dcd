SPECIFICATION FairSpec
CONSTANTS
    Sector = {s1, s2, s3}
    Data = {a, b}
    Torn = Torn
    Apal = Apal
    MaxDirty = 2
    Faults = {}
INVARIANTS RecoveryFindsHeaders
PROPERTIES StoreSpec RestartEnds
