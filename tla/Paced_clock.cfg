\* A request and a tick over outages, tokens that expire and a governor whose
\* delays are 1, 2, 4 and then 5 units.
CONSTANTS
    Admins = {adm1}
    NoCfg = NoCfg
    MayRestart = TRUE
    LoadMayFail = FALSE
    CfgInputs <- MCOneBody
    Readers = {r1}
    Tickers = {k1}
    Tokens = {t1, t2, t3}
    NoTok = NoTok
    MaxFailures = 4
    BaseDelay = 1
    MaxDelay = 5
    Period = 2
    Latency = 1
    TTL = 12
SYMMETRY MCSymmetry
SPECIFICATION PacedSpec
INVARIANTS
    PacedTypeOK
    RecoversInTime
    RenewedAhead
PROPERTIES
    HeldBackInFull
