\* A status request beside a read, admin/map writes and deletions of two views,
\* one under a directory, across restarts.
CONSTANTS
    Admins = {}
    NoCfg = NoCfg
    MayRestart = TRUE
    LoadMayFail = FALSE
    CfgInputs <- MCBody
    Readers = {r1}
    Tickers = {}
    Tokens = {t1}
    NoTok = NoTok
    MaxFailures = 1
    Mappers = {m1}
    app = app
    appdb = appdb
    appdir = appdir
    root = root
    Views = {app, appdb}
    Targets <- MCTarget
    NoEntry = NoEntry
    MaxWrites = 2
    MaxCount = 0
    PutMayFail = FALSE
    SelfRevokeMayFail = FALSE
    Statuses = {s1}
    Dirs = {appdir, root}
    Root = root
    DirOf <- MCDirOf
    Above <- MCAbove
SPECIFICATION StatusSpec
INVARIANTS
    StatusTypeOK
    WalkComplete
    CountedViolationShown
