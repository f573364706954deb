---------------------------- MODULE EngineConfig ----------------------------
(***************************************************************************)
(* The engine's configuration: the `admin/config` storage entry, its       *)
(* in-memory counterpart Backend.config, the write handler that updates    *)
(* the one and then the other, and the reload done when the plugin is      *)
(* mounted again (src/backend/config.go, paths_config.go, backend.go).     *)
(*                                                                         *)
(* applyConfig persists and caches in two steps with no lock held across   *)
(* them, so a write in flight is a process of its own with one step left:  *)
(* acfg[a] is the validated configuration that administrator request a     *)
(* has put in storage and not yet cached, NoCfg when a has none.           *)
(***************************************************************************)

CONSTANTS
    Admins,         \* configuration writes that may be in flight together
    CfgInputs,      \* the bodies a configuration write may carry
    NoCfg,          \* no configuration: the nil *Config, the absent entry
    MayRestart,     \* whether the plugin process may stop and be mounted again
    LoadMayFail     \* whether storage may fail the read made at mount time

ASSUME NoCfgAssumption == NoCfg \notin CfgInputs
ASSUME ConfigFlagAssumption == MayRestart \in BOOLEAN /\ LoadMayFail \in BOOLEAN

VARIABLES
    stored,         \* the `config` storage entry
    config,         \* Backend.config
    acfg            \* per write: stored, but not cached yet

cvars == <<stored, config, acfg>>

-----------------------------------------------------------------------------
\* Config.validate: the three required fields.
Validate(c) == c.role_id # "" /\ c.secret_id # "" /\ c.api_addr # ""

ValidCfgs == {c \in CfgInputs : Validate(c)}

FixedRejectMounts == {"auth", "sys", "identity", "cubbyhole"}

\* Mutant: a nil receiver allows every mount.
TargetMountAllowedNil(cfg, mount) ==
    cfg # NoCfg =>
        /\ mount \notin FixedRejectMounts
        /\ cfg.target_mount_allowlist # {} => mount \in cfg.target_mount_allowlist

\* Config.targetMountAllowed, nil receiver included.
TargetMountAllowed(cfg, mount) ==
    /\ mount \notin FixedRejectMounts
    /\ cfg # NoCfg /\ cfg.target_mount_allowlist # {} => mount \in cfg.target_mount_allowlist

-----------------------------------------------------------------------------
\* An engine that was just mounted: nothing stored, or a configuration some
\* earlier life of the process accepted, and the cache loaded from it.
ConfigInit ==
    /\ stored \in ValidCfgs \cup {NoCfg}
    /\ config = stored
    /\ acfg = [a \in Admins |-> NoCfg]

\* Mutant: the body is persisted before it is validated.
ConfigPutUnvalidated(a) ==
    /\ acfg[a] = NoCfg
    /\ \E c \in CfgInputs : stored' = c /\ acfg' = [acfg EXCEPT ![a] = c]
    /\ UNCHANGED config

\* pathConfigWrite / applyConfig up to and including Storage.Put.  A body that
\* fails validation, and a Put that fails, leave everything as it was.
ConfigPut(a) ==
    /\ acfg[a] = NoCfg
    /\ \E c \in CfgInputs :
          /\ Validate(c)
          /\ stored' = c
          /\ acfg' = [acfg EXCEPT ![a] = c]
    /\ UNCHANGED config

\* Mutant: a second write leaves a configuration that is cached already.
ConfigCacheOnce(a) ==
    /\ acfg[a] # NoCfg
    /\ config' = IF config = NoCfg THEN acfg[a] ELSE config
    /\ acfg' = [acfg EXCEPT ![a] = NoCfg]
    /\ UNCHANGED stored

\* applyConfig's critical section.
ConfigCache(a) ==
    /\ acfg[a] # NoCfg
    /\ config' = acfg[a]
    /\ acfg' = [acfg EXCEPT ![a] = NoCfg]
    /\ UNCHANGED stored

\* The process stops, losing the writes it had not finished, and the mount's
\* `initialize` loads the entry again; an entry it cannot read leaves nil.
ConfigRestart ==
    /\ MayRestart
    /\ acfg' = [a \in Admins |-> NoCfg]
    /\ \/ config' = stored
       \/ LoadMayFail /\ config' = NoCfg
    /\ UNCHANGED stored

ConfigWrite == \E a \in Admins : ConfigPut(a) \/ ConfigCache(a)

ConfigNext == ConfigWrite \/ ConfigRestart

ConfigSpec == ConfigInit /\ [][ConfigNext]_cvars

-----------------------------------------------------------------------------
\* Whatever is stored, cached or about to be cached passed validation:
\* applyConfig touches nothing, storage included, when validation fails.
ConfigTypeOK ==
    /\ stored \in ValidCfgs \cup {NoCfg}
    /\ config \in ValidCfgs \cup {NoCfg}
    /\ acfg \in [Admins -> ValidCfgs \cup {NoCfg}]

\* With no write in flight the cached configuration is the stored one: reads of
\* admin/config answer from storage and everything else acts on the cache, and
\* the two must not tell different stories (backend.go: config is "the
\* in-memory counterpart of the admin/config storage entry, refreshed on every
\* successful config write").
CacheMatchesStore == (\A a \in Admins : acfg[a] = NoCfg) => config = stored
=============================================================================
