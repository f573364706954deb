\* A read that quarantines a view races a rewrite or a deletion of its mapping.
CONSTANTS
    Admins = {}
    NoCfg = NoCfg
    MayRestart = FALSE
    LoadMayFail = FALSE
    CfgInputs <- MCOpenBody
    Readers = {r1, r2}
    Tickers = {}
    Tokens = {t1, t2, t3}
    NoTok = NoTok
    MaxFailures = 1
    Mappers = {m1}
    Views = {v1}
    Targets <- MCOneTarget
    NoEntry = NoEntry
    MaxWrites = 2
    MaxCount = 0
    PutMayFail = FALSE
    SelfRevokeMayFail = FALSE
SYMMETRY MCSymmetry
SPECIFICATION DerefSpec
INVARIANT
    RetiredStaysRetired
