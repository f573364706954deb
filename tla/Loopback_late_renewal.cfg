\* A renewal answered late, against the 403 of a reader that drops the client.
CONSTANTS
    Admins = {adm1}
    NoCfg = NoCfg
    MayRestart = FALSE
    LoadMayFail = FALSE
    CfgInputs <- MCTwoBodies
    Readers = {r1, r2}
    Tickers = {k1}
    Tokens = {t1, t2, t3, t4}
    NoTok = NoTok
    MaxFailures = 2
SYMMETRY MCSymmetry
SPECIFICATION LoopbackSpec
INVARIANT
    ScheduleFollowsClient
