\* Two readers and a tick against logins that fail, tokens that die, restarts
\* and a configuration write.
CONSTANTS
    Admins = {adm1}
    NoCfg = NoCfg
    MayRestart = TRUE
    LoadMayFail = FALSE
    CfgInputs <- MCOneBody
    Readers = {r1, r2}
    Tickers = {k1}
    Tokens = {t1, t2, t3, t4}
    NoTok = NoTok
    MaxFailures = 2
SYMMETRY MCSymmetry
SPECIFICATION LoopbackSpec
INVARIANTS
    LoopbackTypeOK
    DiscardedNeverReturns
    BackoffHasCause
