CONSTANTS
    lower = lower
    upper = upper
    oth = oth
    sel = sel
    upd = upd
    bad = bad
    use = use
    w1 = w1
    w2 = w2
    w3 = w3
    h1 = h1
    a1 = a1
    a2 = a2
    a3 = a3
    v1 = v1
    v2 = v2
    d1 = d1
    d2 = d2
    t1 = t1
    t2 = t2
    o1 = o1
    o2 = o2
    b1 = b1
    b2 = b2
    q1 = q1
    q2 = q2
    i1 = i1
    i2 = i2
    l1 = l1
    l2 = l2
    DbNames = {lower, upper, oth}
    NoDb = NoDb
    Existing = {lower, oth}
    UpperName <- MCUpper
    Texts = {sel, upd, bad, use}
    NoText = NoText
    IsWrite <- MCWrite
    IsForbidden <- MCForbidden
    UseOf <- MCUseOf
    MaxLines = 3
    Faulty = TRUE
    Processes = {w1, w2, w3}
    MaxRetries = 2
    LaunchCases <- MCLaunchCases
    Sources = {h1}
    AuthCalls = {a1, a2}
    FailLimit = 2
    FailWindow = 2
    BlockTime = 2
    TokenTTL = 5
    MaxNow = 6
    Forms <- MCForms
    Savers = {v1, v2}
    Mask = "mask"
    Builtin <- MCBuiltin
    Custom = "custom"
    Lists <- MCLists
    Readers = {a1, a2, a3}
    Editors = {v1, v2}
    SettingParts = {"limit", "config", "providers"}
    OpenTag <- MCOpen
    CloseTag <- MCClose
    RawTexts <- MCRaw
    MaxChunk = 2
    MaxChars = 8
    MaxMessages = 6
    TextSizes = {1, 2}
    SystemSizes = {1, 3, 9}
    MaxAsks = 5
    ExpDbs = {d1, d2}
    ExpTables = {t1, t2}
    ExpObjects = {o1, o2}
    MaxCommits = 1
    ExpCases <- MCExpCases
    SnapDbs = {b1, b2}
    SnapTables = {q1, q2}
    MaxEdits = 2
    DiffCases <- MCDiffCases
    SheetLimit = 4
    RowLimit = 6
    Overview <- MCOverview
    BookCases <- MCBooks
    Legacy <- OldIndex
    MaxCalls = 3
    Scenarios <- MCScenarios
SPECIFICATION ServicesSpec
CHECK_DEADLOCK FALSE
INVARIANTS
    ServicesTypeOK
    PromptHolds ReportTrue
    CredentialsKept AttemptsBounded SavedTakesEffect
    PanelShowsAnswer HistorySound
    OneInstant FilesMatchChoice
    ChangesAreTold LinksLead IndexSound
PROPERTY DropsByNeed
