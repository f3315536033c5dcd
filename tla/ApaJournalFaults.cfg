SPECIFICATION Spec
CONSTANTS
    Sector = {s1, s2, s3}
    Data = {a, b}
    Torn = Torn
    Apal = Apal
    MaxDirty = 2
    Faults = {"log", "commit", "home", "restore"}
INVARIANT ReplayRightSector
SYMMETRY symmetry
