CONSTANTS
    a = a
    b = b
    x = x
    t1 = t1
    t2 = t2
    k1 = k1
    k2 = k2
    v1 = v1
    v2 = v2
    Absent = Absent
    Rows <- AllRows
    Source <- Sources
    HasKey <- OneKeyed
    Jobs <- Databases
    Before <- AnyContent
    Options <- AnyOption
    BatchSize = 2
    Faults <- AllFaults
    MaxAttempts = 2
SPECIFICATION Spec
CHECK_DEADLOCK FALSE
INVARIANTS FirstAttemptRecoverable TargetContents
PROPERTY NoResetWithoutBackup
