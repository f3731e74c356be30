CONSTANTS
    a = a
    b = b
    x = x
    t1 = t1
    t2 = t2
    k1 = k1
    k2 = k2
    v1 = v1
    v2 = v2
    Absent = Absent
    Rows <- AllRows
    Source <- KeyedSources
    HasKey <- BothKeyed
    Jobs <- OneTable
    Before <- Filled
    Options <- Truncate
    BatchSize = 2
    Faults <- Failures
    MaxAttempts = 2
SPECIFICATION Spec
CHECK_DEADLOCK FALSE
INVARIANT OldDataRecoverable
