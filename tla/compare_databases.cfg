CONSTANTS
    d1 = d1
    d2 = d2
    a = a
    b = b
    e = e
    no = no
    any = any
    nodata = nodata
    Dbs = {d1, d2}
    Names <- MCNames
    Fold <- FoldNames
    Norm <- NormValues
    NoName = no
    AnyDb = any
    NoData = nodata
    Tasks <- AllTasks
    Faults <- AllFaults
SPECIFICATION Spec
CHECK_DEADLOCK FALSE
INVARIANTS VerdictSound ReportComplete
