# The voidstar secrets engine in TLA+

voidstar is an OpenBao secrets engine that stores no secrets. A *view* maps to
a *target* in another mount; reading `data/<view>` makes the engine log in to
OpenBao itself (the *loopback client*), read the target and return its value.
A target must be static: a response with a lease, or a renewable one, violates
the contract, the lease is revoked and the mapping is quarantined.

This directory holds the specifications of the engine's state machine, the TLC
configurations that check them, and proofs for TLAPS. Paths and line numbers
refer to the repository's `src/`.

    EngineConfig ── Loopback ── Dereference ── StatusWalk
         │             │          └ ─ ─ MappingLedger (implemented)
         │             └── PacedLoopback
         └── Surface
    Targets ─┘

Each module EXTENDS those on its left, as the components share the one
`Backend` struct. `MC<module>` makes the small instances TLC checks.
`EngineConfigProofs`, `LoopbackProofs`, `DereferenceProofs`, `StatusWalkProofs`,
`PacedProofs` and `SurfaceProofs` prove theorems about the module they are named
after, each from the theorems of the module that one extends;
`DereferenceRefinement` and `LedgerProofs` prove what `Dereference` implements.

These modules implement another one, so that what is proved of that one holds
of them:

* `Dereference` names an instance of `Loopback` (`AsLoopback`) and one of
  `MappingLedger` (`AsLedger`), the abstract specification of the mappings, and
  its behaviours implement both;
* `StatusWalk`, with status requests, implements `Dereference`;
* `PacedLoopback`, with a clock, implements the untimed `Loopback`;
* `Surface`, with requests, implements `EngineConfig`.

## 1. The system

| Component | State | Operations | Talks to |
|---|---|---|---|
| Engine configuration (`backend/config.go`, `paths_config.go`, `initialize` in `backend.go`) | storage entry `config`; `Backend.config` under `Backend.mu` | `POST admin/config` (validate, Put, cache), `GET admin/config`, load at mount | storage; read by every other component |
| Loopback client (`backend.go`, `loopback.go`) | `Backend.client`, `tokenTTL`, `tokenRenewedAt` under `Backend.mu` | `ensureLoopbackClient`, `invalidateLoopbackClient`, `handleLoopbackErr` | OpenBao (AppRole login), configuration, governor |
| Governor (`governor.go`) | `consecutiveFailures`, `nextAllowedAt`, `lastErr` under its own mutex | `allowed`, `recordResult`, `snapshot` | loopback client |
| Renewal (`backend.go`) | the schedule above | `periodic`, `renewLoopbackTokenIfDue` | OpenBao (renew-self), loopback client |
| Mappings (`paths_map.go`, `mapping.go`) | storage entries `map/<view>` | `GET`, `POST`, `DELETE`, `LIST admin/map/...` | storage, configuration (allowlist) |
| Dereferencing reads (`paths_data.go`, `dereference.go`) | locals of the request; writes the mapping when it quarantines | `GET data/<view>`: lookup, fast-fail, read, static contract, unwrap, field | storage, loopback client, counters |
| Status (`paths_status.go`, `recordFailure`) | `Backend.failureCounters` | `recordFailure`, `GET admin/status` | all of the above |
| Metadata (`paths_metadata.go`) | none | `GET`, `LIST metadata/...` | mappings |
| Routing (`backendPaths`, `paths_405.go`, `paths_reserved.go`, `paths_notfound.go`) | none | first match over the registered patterns | framework |

Outside the engine, and modelled only as the choices they leave it: OpenBao
(logins, reads, renewals and revocations that succeed, fail or are refused,
tokens that expire with their leases), the storage, the framework that runs
requests concurrently and calls `periodic`, and the clock.

What is hard here is that nothing is locked across an RPC or a storage access.
`Backend.mu` protects single critical sections; a request reads the
configuration, the mapping and the client at different moments and acts on its
copies after several round trips, beside other requests, the tick, admin writes
and a process that may be stopped anywhere. `PROJECT.json` lists these hazards
line by line.

What makes each component correct:

* configuration: nothing unvalidated is kept; the cache is what storage holds;
* loopback client: a discarded client stays discarded, its schedule goes with
  it, the client is one of the current configuration, and a configured engine
  always gets back to having one, within a bounded time of OpenBao answering;
* governor: no login is held back without a failure on record, and no attempt
  passes the governor's check before the delay is over (attempts that passed it
  earlier may still be under way, and their results come in any order);
* renewal: the current token does not run out while ticks and renewals work;
* dereferencing: after a violation was answered the mapping is dereferenced no
  more until it is rewritten, the lease is gone before the quarantine says so,
  every read is answered;
* mappings: what an administrator replaced or deleted is gone; no mapping
  outside the allowlist, and none whose target is not canonical;
* status: counters that agree with each other; a listing that misses no view,
  and agrees with the counters given beside it;
* routing and metadata: every verb on every path is answered as documented, and
  no answer to a consumer names a target, or its mount, while targets are not
  to be exposed.

## 2. The modules

### EngineConfig

`stored` is the storage entry, `config` is `Backend.config`. `applyConfig`
writes the one and, later, under the lock, the other, so a write is a process
with a step in between: `acfg[a]`.

| Action | Code |
|---|---|
| `ConfigPut(a)` | `pathConfigWrite`, `applyConfig` to the end of `Storage.Put`. A body that fails `validate`, and a Put that fails, change nothing and so are no step |
| `ConfigCache(a)` | the critical section at the end of `applyConfig` |
| `ConfigRestart` | the process stops and is mounted again: writes in flight are lost, `initialize` loads the entry; if storage fails (`LoadMayFail`), `config` is nil |

`TargetMountAllowed` is `Config.targetMountAllowed`, with its nil receiver.

### Loopback

A process is a request (`Readers`) or a tick (`Tickers`); `pc[p]` is where it
is, `held[p]` the client in its local variable, `lcfg[p]` the configuration
`ensureLoopbackClient` read. Clients are named by their tokens. `sched` is the
token whose grant `tokenTTL` and `tokenRenewedAt` describe. `alive` is OpenBao's
side. `stale[p]` is a history variable: the client p holds has been discarded
by a 403 or a recycling, its own or another process's.

| Actions | Code |
|---|---|
| `Request`, `TickStart` | a request that will need the client; `periodic` with a configuration |
| `EnsureLook`, `EnsureGate`, `EnsureLoginOK`/`EnsureLoginFails`, `EnsureRecord`, `EnsureInstall` | `ensureLoopbackClient`: the snapshot under RLock, the governor's `allowed`, the login RPC, `recordResult`, the install under Lock |
| `GiveUp` | its error returns |
| `UseOK`, `UseRefused`, `UseFails`, `UseRecycle` | what a request does with the client: a call that succeeds, is answered 403, fails otherwise, or revokes the client's own token |
| `Discard` | `invalidateLoopbackClient` |
| `RenewLook`, `RenewOK`, `RenewRefused`, `RenewFails`, `RenewStore` | `renewLoopbackTokenIfDue`: snapshot, RPC, and the store under Lock |
| `TokenDies`, `BackoffElapses`, `LoopbackReset` | the token expires at OpenBao; `nextAllowedAt` is reached; a new `Backend` |

Time is abstracted: a token may die whenever it is alive, the renewal margin may
have been reached or not whenever it is looked at, and the backoff ends at some
moment. `blocked` stands for "`nextAllowedAt` is in the future".

### Dereference

Adds the mappings (`store`, and `mreq[m]` for an admin/map write that has passed
its checks and not yet reached storage) and, per reader, the view it was asked
for, the *copy* of the entry it took, the failure it is about to answer with and
the revocation outcome it will record. A mapping entry is its target (mount and
field), its quarantine mark and outcome, and `gen`, the identity of the write
that made it, which the code carries as `WriteTime`. `leases` are the readers
whose response's lease is live at OpenBao.

| Actions | Code |
|---|---|
| `MapCheck`, `MapPut`, `MapDelete` | `pathMapWrite` to the entry it builds, its `Storage.Put`, `pathMapDelete` |
| `DataRead`, `Lookup` | the request, `getMappingFromStorage` with the 404 and the fast-fail |
| `NoClientFails` | `ensureLoopbackClient` failed |
| `ReadStatic`, `ReadLeased`, `ReadRenewable`, `ReadRefused`, `ReadFails` | the five kinds of answer of `client.Read` |
| `RevokeOK`, `RevokeFails`, `RecycleOK`, `RecycleFails`, `DiscardClient` | `checkStaticContract`: `RevokeLease`, `RevokeSelf`, `invalidateLoopbackClient` |
| `Quarantine`, `QuarantineFails` | `quarantineMapping`, which writes the reader's copy, marked |
| `UnwrapOK`, `UnwrapFails` | adapter and field; the shape of the data is a choice of OpenBao |
| `Fail` | `recordFailure` and the coded 502 |

History variables: `condemned` (entries a read has answered `lease_violation`
for), `warned[p]` (`condemned` when p's request began), `retired` (entries
admin/map replaced or deleted).

`AsLoopback` maps the reader's extra places to `idle` (before it asks for the
client and after it has let it go) and `ready` (while it may still use it); the
property `ImplementsLoopback` says that every behaviour of `Dereference`, seen
that way, is one of `Loopback`. What is checked and proved of `Loopback` with
its nondeterministic use of the client therefore covers the use reads make of it.

### MappingLedger

What the mappings promise, with nothing of how: a ledger of which write each
view is mapped by (`mapping`), whether in quarantine, which mapping each request
is served from (`serving`), and which writes have had their turn (`spent`).

| Action | What `Dereference` does |
|---|---|
| `Write(v)` | `MapPut` that storage takes: the mapping of a write that was not live before goes live |
| `Lapse` | `MapPut` that storage refuses |
| `Delete(v)` | `MapDelete` |
| `TakeUp(p, v)` | `Lookup` past the fast-fail: only a mapping that is not in quarantine |
| `Quarantine(p)` | `Quarantine`: the mapping the request was served from, over whatever its view maps to |
| `Finish(p)` | `UnwrapOK`, `Fail` |
| `Crash` | a restart: requests are gone, and so are the writes not yet stored |

Every other step of `Dereference`, a write that is checked and not yet stored
included, is none of the ledger. That a quarantine lands on whatever the view
maps to is part of the promise as the code keeps it; that it ought not to is what
`RetiredStaysRetired` says and `Deref_lost_rewrite` refutes.

### StatusWalk

`pathStatusRead` copies the counters in one critical section and then walks the
mappings with `walkAllMappings`: one `Storage.List` per directory, one `Get` per
view, nothing locked, beside all the steps of `Dereference`.

| Action | Code |
|---|---|
| `StatusBegin(s)` | the snapshot under RLock; of the counters, the views of the lease violations in them |
| `WalkList(s)` | `walk(prefix)`: the keys directly under it, subdirectories among them |
| `WalkGet(s)` | `getMappingFromStorage` of a view that was listed, which may be gone |
| `WalkDone(s)`, `StatusReturn(s)` | the walk is over, the request returns; a storage error returns at any point |

A view's path is its place in the tree of prefixes (`DirOf`, `Above`); the order
in which a listing's keys are visited is left open. History: `steady[s]`, the
views mapped ever since the walk began, and `lifted`, those whose quarantine
admin/map took away. The client, TTL and governor fields of the answer are
copies of one moment and are not kept.

### PacedLoopback

`Loopback` with a clock. Every step is one of `Loopback`'s, made at a moment its
timers allow, or `Elapse`, the clock advancing by a unit. Timestamps are kept as
distances: `wait` is `nextAllowedAt` less now, `age` now less `tokenRenewedAt`,
`life[t]` what OpenBao will still grant a token.

| Definition | Code |
|---|---|
| `Doubled`, `Delay` | `loopbackBackoffDelay`, its loop and its cap |
| `PacedRecord` | `recordResult`: `nextAllowedAt` counts from now |
| `PacedLocal` | `allowed` (with `EnsureGate`) and the other steps without a timer |
| `Margin`, `Due`, `PacedRenewLook`, `PacedRenew`, `PacedRenewStore` | `renewLoopbackTokenIfDue` |
| `PacedLogin`, `PacedInstall`, `PacedDiscard`, `PacedAnswer`, `PacedBegin`, `IdleTick` | as in `Loopback`, with the timers they set |
| `Expire`, `OutageTurns`, `Elapse` | the environment |

The environment: OpenBao calls `periodic` at least every `Period`, a call takes
at most `Latency` with its RPCs, logins and renewals grant `TTL`, and in an
outage OpenBao answers with errors. The life of a token that nothing in the
engine refers to is not followed.

### Targets and Surface

`Targets` is `canonicalizeTarget`, `splitTargetPathField` and `targetMount` over
targets as sequences of lexemes: the characters the code looks at, and words for
the text between them. Beside them stands `Documented`, the README's grammar as
an automaton that reads a target once from left to right. `MCSurface` evaluates
that both agree on every target of up to six lexemes.

`Surface` is what a request meets: `Routes`, the patterns in the order of
`backendPaths`, and `Handler`, the framework's first match; then the handler, as
many steps as it makes accesses to shared state, beside other requests. A request
that writes the configuration is one of `EngineConfig`'s `Admins`, and its steps
are `ConfigPut` and `ConfigCache`. An answer is its status and what it names of a
target: nothing, the mount (errors), or the whole of it (metadata).

| Actions | Code |
|---|---|
| `Begin`, `Collect` | a request is routed; its client has the answer |
| `Refuse` | `path405`, `path404`, and the framework's own 405 for a verb a path does not register |
| `AdminRead`, `MapRead`, `MapCheck`, `MapPut` | `pathConfigRead`, `pathStatusRead`, `pathMapRead`, `pathMapList`, `pathMapWrite` (checks, then Put), `pathMapDelete` |
| `ConfigStore`, `ConfigDone` | `pathConfigWrite`: 400 when validation or the Put fails, else the Put, and later the cache and 204 |
| `Snapshot`, `Metadata` | `pathMetadataRead`, `pathMetadataList` |
| `Snapshot`, `DataGet`, `Deref`, `Violation` | `pathDataRead`: the configuration it begins with, lookup and fast-fail, the outcome, and the violation, which `checkStaticContract` words by the configuration of that moment |
| `StorageFails` | any of them but `pathConfigWrite` answers 500 |

`DocumentedRows` has a row for every path and verb of the repository's README.
The statuses of the consumer surface and the reserved paths are the README's. Its
admin table (`README.md:180`) gives effects and no statuses; there the statuses
are what OpenBao's HTTP layer makes of the handlers' responses, an assumption
about code outside the repository: nil is 404 to a read and 204 to a write, a list
without keys is 404 (`admin/map` LIST "permits an empty result" only as far as the
handler goes, `paths_metadata.go:85`), an error response is 400, and an error is
500. `POST admin/config` answers a failed Put with an error response, so 400, where
`POST admin/map` answers 500. `exposed[r]` is history: `expose_targets` was on at
some moment of the request.

## 3. What is checked

| Run | Question | Result |
|---|---|---|
| `Surface_safety` | two requests over every pattern, one of them free to write the configuration, mappings that change meanwhile, restarts | holds: `SurfaceTypeOK`, `CacheMatchesStore`, `AnsweredAsDocumented`, `Redacted`, `TargetsAdmitted` |
| `EngineConfig_race` | two configuration writes at a time | `CacheMatchesStore` fails: storage keeps one body, the cache the other, until the next write or restart |
| `Loopback_safety` | two requests and a tick against logins, 403s, dead tokens, a configuration write, restarts | holds: `LoopbackTypeOK`, `DiscardedNeverReturns`, `BackoffHasCause` |
| `Loopback_liveness` | the same engine under fairness | holds: `NeverWedged`, `EveryCallReturns` |
| `Loopback_late_renewal` | a renewal answered after the client was dropped | `ScheduleFollowsClient` fails: the schedule describes no client, or not the current one |
| `Loopback_readdressed` | a configuration write while a client is installed | `ClientFollowsConfig` fails: the old client goes on being used |
| `Paced_clock` | a request and a tick over outages, delays and expiring tokens, with a clock | holds: `PacedTypeOK`, `RecoversInTime`, `RenewedAhead`, `HeldBackInFull` |
| `Deref_safety` | two racing reads of a view, rewrites, deletions, restarts | holds: `DerefTypeOK`, `FastFailAfterViolation`, `LeaseSettled`, `AllowlistEnforced`, `RevocationFailuresExplained`, `OnlyRewriteClears`, `ImplementsLedger` |
| `Deref_liveness` | a read beside a tick and a configuration write, every failure allowed, under fairness | holds: `EveryReadAnswered`, `ImplementsLoopback` |
| `Status_walk` | a status request beside a read, writes and deletions of a view and of one in a directory, restarts | holds: `StatusTypeOK`, `WalkComplete`, `CountedViolationShown` |
| `Deref_lost_rewrite` | a read quarantines a mapping rewritten or deleted since its lookup | `RetiredStaysRetired` fails: the old mapping is back |
| `Deref_unreadable` | storage may fail the read at mount time | `AllowlistEnforced` fails: a nil configuration permits every mount but the fixed rejects |

The five runs that end in a counterexample each show a place where the code and
what a comment or the README says of it differ; `PROJECT.json` quotes them.

Failures of the environment are constants: `LoadMayFail`, `PutMayFail`,
`SelfRevokeMayFail`. Where one of them breaks a property, the property is checked
and proved without it. Set to TRUE in `Deref_safety.cfg`,

* `PutMayFail` breaks `FastFailAfterViolation` (and, in `Status_walk.cfg`,
  `CountedViolationShown`): when the Put of the quarantined
  entry fails, `checkStaticContract` (`dereference.go:180`) logs it and answers as
  if it had been stored, and the next read dereferences the view again;
* `SelfRevokeMayFail` breaks `LeaseSettled`: the outcome "revoke failed, token
  recycled" is composed before `RevokeSelf` is called (`dereference.go:168`).

### Bounds

* Configuration bodies. `Surface_safety`: a body with and one without
  `expose_targets`, and one without each of the required fields. `EngineConfig_race`
  and `Loopback_readdressed`: two addresses, so that two configurations can be told
  apart; elsewhere one body that is valid, with an allowlist where a property is
  about it. The code compares fields with "" and mounts with each other, so more
  values show nothing new.
* Two requests and one tick: every race in this code is between two processes
  that hold copies and one shared variable. The framework calls `periodic` one
  tick at a time. Four tokens in `Loopback_safety`: one per process and the
  current client. In `Deref_safety`, without a tick, two requests never refer to
  more than two tokens: a request that logs in holds no other client, and the
  client that is installed is held by the other request or by none.
  In `Deref_liveness` two tokens are enough: where a request stands depends on
  whether its login succeeds, never on which token it gets.
* `MaxFailures`, `MaxCount`: counters stay at the bound once they reach it. The
  guards only ask whether a count is zero.
* `MaxWrites` = 2: the original mapping and one that replaces it, each of which
  may be quarantined, deleted or rewritten.
* One view in `Deref_safety`: views share nothing but the client and the counters
  of their mount. `Status_walk` has two, "app" and "app/db": a view, a directory
  of the same name, and a view only the recursion finds. One status request: they
  write nothing and so do not meet. One reader and one token, as only the
  quarantines of reads matter to the walk.
* `Surface_safety`: the first request is any verb on any of 14 paths, at least
  one per pattern and three that no pattern but the catch-all takes; the second
  is a read of `data/app` or `metadata/app`, or a write or deletion of
  `admin/map/app`, the requests that change or use what the first one looks at.
  Requests share only the mappings and the configuration, so a race needs one that
  writes and one that reads. Only the first may write the configuration: with two
  writers `CacheMatchesStore` fails, which is `EngineConfig_race`. Targets: one canonical, five that miss the grammar in one way each.
  The bodies switch `expose_targets` on and off.
* `Paced_clock`: delays of 1, 2, 4 and then 5 units, so that the cap is reached
  and is no power of two; a tick every 2 units, calls of up to 1. The TTL is 12:
  from the margin to the end of the TTL there must be a tick, a renewal whose late
  answer puts the schedule off, another tick and its call. With these numbers a
  TTL of 11 breaks `RenewedAhead` and 12 keeps it, which is the 3 (Period + 2
  Latency) of `MarginCoversTick`. That is a condition on the deployment, on the
  TTL of its AppRole role against the framework's period: tokens that live several
  times as long as the period are well inside. `MCPacedLoopback` asserts it of the
  instance, and `RenewalInTime` proves that it is enough.
* Tokens and readers are symmetric in `Loopback_safety`, `Deref_safety` and, the
  tokens, in `Paced_clock`; no symmetry is used where
  liveness is checked.

### Fairness

`Loopback`: weak fairness on every step of a call that has begun (the runtime
runs every goroutine, and every RPC comes back, with an error if it must); weak
fairness of the tick (the framework calls `periodic` again and again); the
backoff elapses (the clock advances); a configuration write that has reached
storage reaches the cache; and strong fairness of a login that succeeds: one
that is tried again and again succeeds some day. The last is an assumption about
OpenBao and the AppRole, without which no client can be expected.
`Dereference` needs only weak fairness on the steps of calls: that reads are
answered does not depend on logins that work. No request is assumed to arrive,
no token to live.

`RecoversInTime` is the bounded counterpart of `NeverWedged`: it needs no
fairness, as the clock cannot pass a tick that is due, a call at its latency or a
token that is to expire.

The liveness runs have no restart: a process that is stopped again and again
answers nothing.

### Assumptions

A restart loads the configuration before any request is served (the framework
runs `InitializeFunc` first). A Put that returns an error changed nothing. The
write time of a mapping identifies the write. `QuarantineCause`, the adapter
and the path of a target are abstracted in `Dereference`: no step depends on them
but the adapter's, whose outcome is a choice. The framework's routing (anchored
patterns, first match, 405 for a verb a path lacks, and the statuses of nil, empty
and error responses listed under Surface) is modelled from how the code uses it
and marked external. The violations
`StatusWalk` counts are those of all processes so far, a superset of the ones in
the counters of the present process, which start anew.

## 4. What is proved

For any number of requests, ticks, writers, views, targets, tokens and mapping
writes, from the named assumptions on the constants (sentinels differ from
values, requests are not ticks, bounds are naturals, flags are Boolean):

| Theorem | Property |
|---|---|
| `EngineConfigProofs!ConfigTypeCorrect` | `ConfigTypeOK` |
| `EngineConfigProofs!CacheCoherent` | `CacheMatchesStore`, if at most one write is in flight and the entry can be read at mount time |
| `LoopbackProofs!LoopbackTypeCorrect` | `LoopbackTypeOK` |
| `LoopbackProofs!BackoffSound` | `BackoffHasCause` |
| `LoopbackProofs!DiscardedStaysDiscarded` | `DiscardedNeverReturns` |
| `PacedProofs!PacedRefinesLoopback` | `PacedSpec => LoopbackSpec` |
| `PacedProofs!PacedTypeCorrect` | `PacedTypeOK`, if the delays grow up to the cap |
| `PacedProofs!BackoffHeldInFull` | `HeldBackInFull`, if the delays grow up to the cap |
| `PacedProofs!RecoveryBounded` | `RecoversInTime`, if the delays grow up to the cap |
| `PacedProofs!RenewalInTime` | `RenewedAhead`, if the delays grow up to the cap and the TTL leaves the ticks room (`MarginCoversTick`) |
| `DereferenceProofs!DerefTypeCorrect` | `DerefTypeOK` |
| `DereferenceProofs!LeasesSettled` | `LeaseSettled`, if a live token can revoke itself |
| `DereferenceProofs!RevocationsHold` | `RevokedIsGone`: of `LeaseSettled`, what concerns the outcome "revoked", without that hypothesis |
| `DereferenceProofs!FastFailHolds` | `FastFailAfterViolation`, if storage takes the quarantine write |
| `DereferenceProofs!RewritesAloneClear` | `OnlyRewriteClears` |
| `DereferenceProofs!AllowlistHolds` | `AllowlistEnforced`, if no configuration is written and the entry can be read at mount time |
| `DereferenceProofs!RevocationsExplained` | `RevocationFailuresExplained` |
| `DereferenceRefinement!DereferenceRefines` | `ImplementsLoopback` |
| `DereferenceRefinement!ReadsShareSoundClient` | `DiscardedNeverReturns` and `BackoffHasCause`, of `DerefSpec` |
| `LedgerProofs!LedgerKeptByReads` | `ImplementsLedger` |
| `StatusWalkProofs!StatusTypeCorrect` | `StatusTypeOK` |
| `StatusWalkProofs!WalksAreComplete` | `WalkComplete` |
| `StatusWalkProofs!CountedViolationsShown` | `CountedViolationShown`, if storage takes the quarantine write |
| `SurfaceProofs!SurfaceTypeCorrect` | `SurfaceTypeOK` |
| `SurfaceProofs!TargetsAreRedacted` | `Redacted` |
| `SurfaceProofs!AnswersAreDocumented` | `AnsweredAsDocumented`, for every verb and every path, configuration writes included |
| `SurfaceProofs!StoredTargetsAdmitted` | `TargetsAdmitted`, if `canonicalizeTarget` lets through only what the grammar admits, and the engine has a mount |
| `SurfaceProofs!SurfaceRefinesConfig` | `SurfaceSpec => ConfigSpec` |
| `SurfaceProofs!SurfaceReadsStored` | `CacheMatchesStore` of `SurfaceSpec`, as `CacheCoherent` |
| `StatusWalkProofs!StatusRefinesDereference` | `StatusSpec => DerefSpec` |

The hypotheses are the ones whose absence the runs show to matter, and two facts
about recursive functions, which TLAPS cannot establish for every value and TLC
evaluates instead: `DelaysGrow` (in `MCPacedLoopback`, with the closed form of
the delay) and `GrammarMet` (in `MCSurface`, on the run's targets and, beyond,
on all of up to six lexemes).

* *Types.* `LoopbackTypeOK` is inductive once it is known that a process that is
  about to install or to renew holds a token and a configuration; in
  `Dereference`, `ReaderShape` says that a reader has an entry exactly from the
  lookup to the answer, so that the steps which write its copy back write an entry.
* *Discarded clients.* `client # held[p]` for a stale p is not inductive: a login
  could issue the same token again, and a process on its way to install could be
  stale. The invariant adds that a token about to be installed is held by nobody
  else and that the client is no stale process's.
* *Leases.* `LeaseInCare`: a lease is live only while its reader is on its way to
  revoke it, and under a token that is alive.
* *Fast-fail.* `FastFailAfterViolation` speaks of a reader's copy; what keeps it
  true is that an entry condemned by an answer is marked wherever it is stored
  (`Marked`, `Verdict`), although readers write copies back at any time. They
  write marked copies; the only unmarked entry that reaches storage is that of a
  pending admin/map write, and `Ledger` says that nobody has seen that entry: no
  reader has it, it is not stored, condemned or retired. `OnlyRewriteClears`
  follows from the same invariant.

* *Refinement.* A step that ends or begins a request outside the client must
  not be seen by `Loopback`; that takes the invariant `EmptyHands`, that a reader
  at such a place holds no client. Then every action has its counterpart: letting
  go of the client is a use that returns, a 403 and a failed self-revocation are
  `UseRefused`, `RecycleOK` is `UseRecycle`, and the lookup that finds an entry
  is `Request`. `SeenProofs` instantiates the theorems of `LoopbackProofs` with the
  same mapping, which makes them theorems about reads.
* *Ledger.* A reader's steps need its shape only: it holds an entry exactly from
  the lookup to the answer. A `MapPut` is a `Write` because its mapping is nobody's
  yet, stored or lapsed, and no other write's: the `Ledger` of the fast-fail proof.
  `NoEntry` has to differ from what the ledger makes of an entry, too.

* *Allowlist and revocations.* A mapping on its way to storage was checked
  against the configuration that holds, in whoever's hands it is; a counted
  revocation failure belongs to a reader that is still on its way to count the
  violation, so the two counters differ by those readers at most.
* *Walk.* `WalksAreComplete` needs, for each view that has been mapped all along,
  that it was found, or is yet to be visited, or lies under a directory that is.
  A listing hands that on: the directory a mapped view lies under has, among its
  children, the view or the next directory above it. `CountedViolationsShown`
  adds that a found entry of a counted view is marked, which is `Marked` of the
  fast-fail proof carried into the copies of the walk.
* *Clock.* Every timed step is an untimed one, which carries over `Loopback`'s
  theorems; `HeldBackInFull` needs in addition that what there is to wait is no
  more than the delay of the present failure count.
* *Recovery.* `RecoversInTime` bounds how long the engine is `down`: configured,
  OpenBao answering, and without a client. Inductive is where that time goes.
  While a login is held back, what is left to wait bounds what has passed
  (`HeldBackWithinCap`); once none is, a tick is due within the period, or one has
  begun and is on its way to a login (`TickOrAttempt`). An attempt that could wreck
  this is one that is refused late and starts a new wait; only an outage refuses
  logins, so the engine was not yet down when it was (`RefusedWithinCall`).
* *Renewal.* `RenewedAhead` would follow if the schedule told the age of the
  current token. It does not: a renewal that ends late writes the schedule of a
  token that has been replaced (`Loopback_late_renewal`). But the replacement was
  granted while that renewal was under way (`GrantedMeanwhile`,
  `InstalledMeanwhile`), so the schedule is wrong by a call's length at most
  (`ScheduleTellsAge`). From the margin on, what the token still lives and the time
  since the last tick add up to the rest of the TTL (`Reserve`), or a tick is at
  work that will renew the client or do away with it (`TickInReserve`). The TTL must
  exceed the margin by a period and two calls, which is `MarginCoversTick`.
* *Surface.* `FirstMatch` turns the minimum over matching patterns into the route
  with none before it, `Disjoint` shows that the patterns other than the
  catch-all never overlap, and `AsDocumented` that each row of the README is one
  of these routes. The invariant `Coherent` says that the place of a request fits
  the handler it was routed to and that no configuration in its hands exposes
  targets unless one did while it ran. `SurfaceRefinesConfig` needs it, too: the
request at `pathConfigWrite` was routed there, and so is one of the `Admins`
(`WritersAssumption`).

Every safety invariant and action property of the passing runs, and every
refinement they check, is a theorem. Only model-checked: the liveness properties
(fairness is beyond the prover), that `Canonical` and `Documented` agree, and the
two facts about recursive functions named above.

## 5. Where it stands

The plan (the core; the clock; the status walk; targets; routing; redaction; the
abstract ledger of mappings; the theorems about them) is carried out.

Seen while modelling, and not the subject of a run:

* The repository's README lists, for a kv2 target without its envelope, the
  message "kv2 adapter: response missing data.data envelope" (`README.md:231`);
  `pathDataRead` answers "upstream dereference failed" (`paths_data.go:94`). The
  status, 502, agrees; messages are not modelled.
* `canonicalizeTarget` compares the first segment of a target with the own mount
  (`mapping.go:104`): an engine mounted at `team/vs` does not recognise itself.
* `LIST` on `data/...` gets the framework's generic 405, as the verb is not
  registered (`paths_data.go:26`), although the comment at `paths_data.go:14`
  speaks of any other verb.
* What `expose_targets` exposes. The repository's README says the target mount name
  (`README.md:205`, and `README.md:343`: only the mount name reaches a consumer's
  error or metadata). Errors keep to that (`dereference.go:101`), but
  `custom_metadata` holds the whole target (`dereference.go:133`), as the tests
  expect (`paths_data_test.go:362`, `paths_metadata_test.go:113`). The model tells
  the two apart (`Named`); `Redacted` is about the switch being off, and holds of both.
* An unknown path under `admin/` is answered 404 by the catch-all.

### Not modelled

* The wording of answers and logs, the redaction of `secret_id`, the constant
  fields of synthetic metadata, and the adapter's unwrapping of data: no control
  depends on them; adapter and field are outcomes of a read.
* `loopback_fake.go`, the test double: canned answers behind an interface whose
  answers the models choose freely.
* The plugin's `main` (flags and `plugin.Serve`), the load generator and the fake
  engine under `bench/`, and the build and release scripts: no logic of the engine.
* Tokens of logins that ran side by side, of which all but one are surplus until
  their TTL: the code promises nothing about them.
