\* Two racing reads of one view against rewrites, deletions and restarts, with
\* a storage that takes its writes and revocations of a live token that work;
\* one mount is allowed and one is not.  Two readers without a tick never refer
\* to more than two tokens.
CONSTANTS
    Admins = {}
    NoCfg = NoCfg
    MayRestart = TRUE
    LoadMayFail = FALSE
    CfgInputs <- MCNarrowBody
    Readers = {r1, r2}
    Tickers = {}
    Tokens = {t1, t2}
    NoTok = NoTok
    MaxFailures = 1
    Mappers = {m1}
    Views = {v1}
    Targets <- MCTwoMounts
    NoEntry = NoEntry
    MaxWrites = 2
    MaxCount = 1
    PutMayFail = FALSE
    SelfRevokeMayFail = FALSE
SYMMETRY MCSymmetry
SPECIFICATION DerefSpec
INVARIANTS
    DerefTypeOK
    FastFailAfterViolation
    LeaseSettled
    AllowlistEnforced
    RevocationFailuresExplained
PROPERTIES
    OnlyRewriteClears
    ImplementsLedger
