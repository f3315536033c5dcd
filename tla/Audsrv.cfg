SPECIFICATION FairSpec
CONSTANTS
    Format <- MCFormat
    Chunk = {3}
    Threshold = {4}
    BufSize = 40
    MaxLate = 1
INVARIANTS TypeOK QueueInOrder 
PROPERTIES WaitReturns
