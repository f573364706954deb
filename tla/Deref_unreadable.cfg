\* Storage may fail the read of the configuration at mount time.
CONSTANTS
    Admins = {}
    NoCfg = NoCfg
    MayRestart = TRUE
    LoadMayFail = TRUE
    CfgInputs <- MCNarrowBody
    Readers = {r1, r2}
    Tickers = {}
    Tokens = {t1, t2, t3}
    NoTok = NoTok
    MaxFailures = 1
    Mappers = {m1}
    Views = {v1}
    Targets <- MCTwoMounts
    NoEntry = NoEntry
    MaxWrites = 2
    MaxCount = 0
    PutMayFail = FALSE
    SelfRevokeMayFail = FALSE
SYMMETRY MCSymmetry
SPECIFICATION DerefSpec
INVARIANT
    AllowlistEnforced
