CONSTANTS
    e1 = e1
    e2 = e2
    e3 = e3
    c1 = c1
    c2 = c2
    c3 = c3
    i1 = i1
    i2 = i2
    k1 = k1
    n1 = n1
    n2 = n2
    n3 = n3
    s1 = s1
    s2 = s2
    q1 = q1
    q2 = q2
    q3 = q3
    q4 = q4
    r1 = r1
    r2 = r2
    r3 = r3
    f1 = f1
    w1 = w1
    w2 = w2
    Blank = Blank
    ArtTasks = {e1, e2, e3}
    ArtCases <- MCArtCases
    MaxHistory = 2
    LibCallers = {c1, c2, c3}
    SavedIds = {i1, i2}
    LibNames = {n1, n2, n3, k1}
    Servers = {s1, s2}
    MaxSchema = 1
    LibCases <- MCLibCases
    SqlCallers = {q1, q2, q3, q4}
    RowKeys = {r1, r2, r3}
    MaxSqlHistory = 2
    MaxClock = 3
    SqlCases <- MCSqlCases
    TaskIds = {i1, i2}
    TaskCalls = {w1, w2}
    MaxEdits = 3
    CmdCases <- MCCmdCases
SPECIFICATION LibrarySpec
CHECK_DEADLOCK FALSE
INVARIANTS
    LibraryTypeOK
    DoneOpens DeletedLeavesNothing TrimsKeepNewest
    LibraryOrdered CacheFaithful
    ReportedExactly AuditComplete DeletedFavoriteStays
    LastGivenWins LastUsedIsLatest
PROPERTY KeptWithConnection
