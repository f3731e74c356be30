CONSTANTS
    d1 = d1
    d2 = d2
    k1 = k1
    k2 = k2
    v1 = v1
    v2 = v2
    None = None
    Keys <- AllKeys
    Values <- AllValues
    Databases <- TwoDBs
    Imports <- Overlapping
    Rollback = TRUE
SPECIFICATION Spec
CHECK_DEADLOCK FALSE
INVARIANT FilesRestore
