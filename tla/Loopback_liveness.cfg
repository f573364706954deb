\* Fairness, no restart: a client is installed again and again, calls return.
CONSTANTS
    Admins = {adm1}
    NoCfg = NoCfg
    MayRestart = FALSE
    LoadMayFail = FALSE
    CfgInputs <- MCOneBody
    Readers = {r1}
    Tickers = {k1}
    Tokens = {t1, t2, t3}
    NoTok = NoTok
    MaxFailures = 1
SPECIFICATION LoopbackFairSpec
PROPERTIES
    NeverWedged
    EveryCallReturns
