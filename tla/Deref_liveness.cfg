\* Every read is answered, and uses the client as Loopback allows, although
\* storage, revocation and self-revocation may fail, beside a tick and a
\* configuration write.
CONSTANTS
    Admins = {adm1}
    NoCfg = NoCfg
    MayRestart = FALSE
    LoadMayFail = FALSE
    CfgInputs <- MCOpenBody
    Readers = {r1}
    Tickers = {k1}
    Tokens = {t1, t2}
    NoTok = NoTok
    MaxFailures = 1
    Mappers = {m1}
    Views = {v1}
    Targets <- MCOneTarget
    NoEntry = NoEntry
    MaxWrites = 1
    MaxCount = 0
    PutMayFail = TRUE
    SelfRevokeMayFail = TRUE
SPECIFICATION DerefFairSpec
PROPERTIES
    EveryReadAnswered
    ImplementsLoopback
