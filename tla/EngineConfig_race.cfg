\* Two configuration writes race: storage keeps one, the cache the other.
CONSTANTS
    Admins = {adm1, adm2}
    NoCfg = NoCfg
    MayRestart = FALSE
    LoadMayFail = FALSE
    CfgInputs <- MCTwoBodies
SPECIFICATION ConfigSpec
INVARIANT CacheMatchesStore
