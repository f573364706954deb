\* Two requests over every route, one of which may write the configuration and
\* turn expose_targets on and off, and restarts.
CONSTANTS
    Admins = {q1}
    NoCfg = NoCfg
    MayRestart = TRUE
    LoadMayFail = FALSE
    CfgInputs <- MCBodies
    Reqs = {q1, q2}
    Views <- MCViews
    Requests <- MCRequests
    q1 = q1
    q2 = q2
    TargetInputs <- MCTargets
    OwnMount <- MCOwnMount
    NoEntry = NoEntry
SPECIFICATION SurfaceSpec
INVARIANTS
    SurfaceTypeOK
    CacheMatchesStore
    AnsweredAsDocumented
    Redacted
    TargetsAdmitted
