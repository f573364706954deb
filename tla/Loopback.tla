------------------------------ MODULE Loopback ------------------------------
(***************************************************************************)
(* The loopback client of the engine: lazy login paced by a governor,      *)
(* renewal ahead of the token's TTL, and invalidation on a 403             *)
(* (src/backend/backend.go, governor.go, loopback.go).                     *)
(*                                                                         *)
(* Requests and periodic ticks run concurrently; every one of them is a    *)
(* process.  A critical section of Backend.mu or of the governor's mutex   *)
(* is one step, an RPC to OpenBao is a step of its own between two of      *)
(* them, and no lock is held across an RPC.  Readers stand for the         *)
(* dereferencing requests, of which this module keeps what they do with    *)
(* the client; module Dereference has the rest.                            *)
(*                                                                         *)
(* Time is abstracted: a token may die at any moment, the renewal margin   *)
(* may have been reached or not whenever it is looked at, and the backoff  *)
(* of the governor elapses at some moment.                                 *)
(***************************************************************************)
EXTENDS EngineConfig, Integers

CONSTANTS
    Readers,        \* requests that use the loopback client
    Tickers,        \* ticks of the periodic function
    Tokens,         \* identities of loopback tokens
    NoTok,          \* no client, no schedule
    MaxFailures     \* bound: the failure count stays there once it is reached

Procs == Readers \cup Tickers

ASSUME NoTokAssumption == NoTok \notin Tokens
ASSUME ProcsAssumption == Readers \cap Tickers = {}
ASSUME MaxFailuresAssumption == MaxFailures \in Nat \ {0}

VARIABLES
    client,         \* Backend.client, named by its token
    clientCfg,      \* the configuration that client was built from
    sched,          \* the token whose grant tokenTTL/tokenRenewedAt describe
    failures,       \* loopbackGovernor.consecutiveFailures
    blocked,        \* loopbackGovernor.nextAllowedAt lies in the future
    alive,          \* OpenBao: the tokens it still honours
    pc,             \* where each process is
    held,           \* the client each process has in a local variable
    lcfg,           \* the configuration each process read in ensureLoopbackClient
    stale           \* history: the client a process holds has been discarded

clvars == <<client, clientCfg>>
gvars == <<failures, blocked>>
shared == <<cvars, clvars, sched, gvars, alive>>
lvars == <<client, clientCfg, sched, failures, blocked, alive, pc, held, lcfg, stale>>
vars == <<stored, config, acfg, client, clientCfg, sched, failures, blocked, alive,
          pc, held, lcfg, stale>>

EnsurePCs == {"look", "gate", "login", "granted", "refusedlogin", "install"}
ReaderPCs == {"idle", "ready", "unavailable", "discard"} \cup EnsurePCs
TickerPCs == ReaderPCs \cup {"renew", "renewed"}

\* A token no variable of the engine refers to: what a login may issue.
Fresh(t) == t # client /\ t # sched /\ \A p \in Procs : held[p] # t

Goto(p, l) == pc' = [pc EXCEPT ![p] = l]
Hold(p, t) == held' = [held EXCEPT ![p] = t]

\* ensureLoopbackClient returns to p, and its copy of the configuration is gone.
Leave(p, l) ==
    /\ Goto(p, l)
    /\ lcfg' = [lcfg EXCEPT ![p] = NoCfg]

\* p's call returns, and its client variable is gone.
Return(p) ==
    /\ Goto(p, "idle")
    /\ Hold(p, NoTok)
    /\ stale' = [stale EXCEPT ![p] = FALSE]

-----------------------------------------------------------------------------
LoopbackInit ==
    /\ ConfigInit
    /\ client = NoTok /\ clientCfg = NoCfg /\ sched = NoTok
    /\ failures = 0 /\ blocked = FALSE
    /\ alive = {}
    /\ pc = [p \in Procs |-> "idle"]
    /\ held = [p \in Procs |-> NoTok]
    /\ lcfg = [p \in Procs |-> NoCfg]
    /\ stale = [p \in Procs |-> FALSE]

\* A request that will need the client arrives.
Request(p) ==
    /\ p \in Readers /\ pc[p] = "idle"
    /\ Goto(p, "look")
    /\ UNCHANGED <<shared, held, lcfg, stale>>

\* periodic: nothing to do until a configuration is cached.
TickStart(p) ==
    /\ p \in Tickers /\ pc[p] = "idle"
    /\ config # NoCfg
    /\ Goto(p, "look")
    /\ UNCHANGED <<shared, held, lcfg, stale>>

-----------------------------------------------------------------------------
\* ensureLoopbackClient: the snapshot of client and config under RLock, and the
\* two returns that depend on nothing else.
EnsureLook(p) ==
    /\ pc[p] = "look"
    /\ \/ client # NoTok /\ Hold(p, client) /\ Goto(p, "ready") /\ UNCHANGED lcfg
       \/ client = NoTok /\ config = NoCfg /\ Goto(p, "unavailable") /\ UNCHANGED <<held, lcfg>>
       \/ /\ client = NoTok /\ config # NoCfg
          /\ lcfg' = [lcfg EXCEPT ![p] = config]
          /\ Goto(p, "gate")
          /\ UNCHANGED held
    /\ UNCHANGED <<shared, stale>>

\* Mutant: attempts are refused while failures are on record.
EnsureGateCounts(p) ==
    /\ pc[p] = "gate"
    /\ \/ failures > 0 /\ Leave(p, "unavailable")
       \/ failures = 0 /\ Goto(p, "login") /\ UNCHANGED lcfg
    /\ UNCHANGED <<shared, held, stale>>

\* loopbackGov.allowed.
EnsureGate(p) ==
    /\ pc[p] = "gate"
    /\ \/ blocked /\ Leave(p, "unavailable")
       \/ ~blocked /\ Goto(p, "login") /\ UNCHANGED lcfg
    /\ UNCHANGED <<shared, held, stale>>

\* newSDKLoopbackClient: OpenBao answers the AppRole login with a new token.
EnsureLoginOK(p) ==
    /\ pc[p] = "login"
    /\ \E t \in Tokens :
          /\ Fresh(t)
          /\ alive' = alive \cup {t}
          /\ Hold(p, t)
          /\ Goto(p, "granted")
    /\ UNCHANGED <<cvars, clvars, sched, gvars, lcfg, stale>>

\* The login is refused, or cannot be reached.
EnsureLoginFails(p) ==
    /\ pc[p] = "login"
    /\ Goto(p, "refusedlogin")
    /\ UNCHANGED <<shared, held, lcfg, stale>>

\* Mutant: a success leaves the backoff of earlier failures in place.
EnsureRecordKeepsBackoff(p) ==
    /\ \/ /\ pc[p] = "granted"
          /\ failures' = 0 /\ UNCHANGED blocked
          /\ Goto(p, "install") /\ UNCHANGED lcfg
       \/ /\ pc[p] = "refusedlogin"
          /\ failures' = IF failures < MaxFailures THEN failures + 1 ELSE failures
          /\ blocked' = TRUE
          /\ Leave(p, "unavailable")
    /\ UNCHANGED <<cvars, clvars, sched, alive, held, stale>>

\* loopbackGov.recordResult; a failed construction ends the call.
EnsureRecord(p) ==
    /\ \/ /\ pc[p] = "granted"
          /\ failures' = 0 /\ blocked' = FALSE
          /\ Goto(p, "install") /\ UNCHANGED lcfg
       \/ /\ pc[p] = "refusedlogin"
          /\ failures' = IF failures < MaxFailures THEN failures + 1 ELSE failures
          /\ blocked' = TRUE
          /\ Leave(p, "unavailable")
    /\ UNCHANGED <<cvars, clvars, sched, alive, held, stale>>

\* The second critical section: whatever client is there is replaced.
EnsureInstall(p) ==
    /\ pc[p] = "install"
    /\ client' = held[p] /\ clientCfg' = lcfg[p] /\ sched' = held[p]
    /\ Leave(p, "ready")
    /\ UNCHANGED <<cvars, gvars, alive, held, stale>>

\* Mutant: the call asks for a client again.
GiveUpNever(p) ==
    /\ pc[p] = "unavailable"
    /\ Goto(p, "look")
    /\ UNCHANGED <<shared, held, lcfg, stale>>

\* ensureLoopbackClient returned an error: the request fails, the tick ends.
GiveUp(p) ==
    /\ pc[p] = "unavailable"
    /\ Return(p)
    /\ UNCHANGED <<shared, lcfg>>

-----------------------------------------------------------------------------
\* A loopback call of a reader succeeds: only a token that is alive is honoured.
UseOK(p) ==
    /\ p \in Readers /\ pc[p] = "ready"
    /\ held[p] \in alive
    /\ Return(p)
    /\ UNCHANGED <<shared, lcfg>>

\* It is answered 403, for a dead token or by policy: is403 cannot tell.
UseRefused(p) ==
    /\ p \in Readers /\ pc[p] = "ready"
    /\ Goto(p, "discard")
    /\ UNCHANGED <<shared, held, lcfg, stale>>

\* It fails otherwise: handleLoopbackErr leaves the client in place.
UseFails(p) ==
    /\ p \in Readers /\ pc[p] = "ready"
    /\ Return(p)
    /\ UNCHANGED <<shared, lcfg>>

\* RevokeSelf: the reader recycles its token, and then discards the client.
UseRecycle(p) ==
    /\ p \in Readers /\ pc[p] = "ready"
    /\ alive' = alive \ {held[p]}
    /\ Goto(p, "discard")
    /\ UNCHANGED <<cvars, clvars, sched, gvars, held, lcfg, stale>>

\* The clients p's 403 does away with: its own, and the one of the moment.
Discarded(p) == {held[p], client} \ {NoTok}

\* invalidateLoopbackClient: the current client goes, even if it is not the one
\* p was refused with.
Discard(p) ==
    /\ pc[p] = "discard"
    /\ client' = NoTok /\ clientCfg' = NoCfg /\ sched' = NoTok
    /\ stale' = [q \in Procs |-> q # p /\ (stale[q] \/ held[q] \in Discarded(p))]
    /\ Goto(p, "idle") /\ Hold(p, NoTok)
    /\ UNCHANGED <<cvars, gvars, alive, lcfg>>

-----------------------------------------------------------------------------
\* renewLoopbackTokenIfDue reads client and schedule again; there may be no
\* client by now, no schedule, or no need to renew yet.
RenewLook(p) ==
    /\ p \in Tickers /\ pc[p] = "ready"
    /\ \/ Return(p)
       \/ /\ client # NoTok /\ sched # NoTok
          /\ Hold(p, client)
          /\ Goto(p, "renew")
          /\ stale' = [stale EXCEPT ![p] = FALSE]
    /\ UNCHANGED <<shared, lcfg>>

RenewOK(p) ==
    /\ pc[p] = "renew"
    /\ held[p] \in alive
    /\ Goto(p, "renewed")
    /\ UNCHANGED <<shared, held, lcfg, stale>>

RenewRefused(p) ==
    /\ pc[p] = "renew"
    /\ Goto(p, "discard")
    /\ UNCHANGED <<shared, held, lcfg, stale>>

RenewFails(p) ==
    /\ pc[p] = "renew"
    /\ Return(p)
    /\ UNCHANGED <<shared, lcfg>>

\* Mutant: the renewal puts the client it renewed back as well.
RenewStoreClient(p) ==
    /\ pc[p] = "renewed"
    /\ sched' = held[p] /\ client' = held[p]
    /\ Return(p)
    /\ UNCHANGED <<cvars, clientCfg, gvars, alive, lcfg>>

\* The schedule of the renewed token is written, whichever client is current.
RenewStore(p) ==
    /\ pc[p] = "renewed"
    /\ sched' = held[p]
    /\ Return(p)
    /\ UNCHANGED <<cvars, clvars, gvars, alive, lcfg>>

-----------------------------------------------------------------------------
\* OpenBao: a token expires or is revoked by somebody else.
TokenDies ==
    /\ \E t \in alive : alive' = alive \ {t}
    /\ UNCHANGED <<cvars, clvars, sched, gvars, pc, held, lcfg, stale>>

\* nextAllowedAt is reached.
BackoffElapses ==
    /\ blocked
    /\ blocked' = FALSE
    /\ UNCHANGED <<cvars, clvars, sched, failures, alive, pc, held, lcfg, stale>>

\* The plugin process stops with every request in it and a new one is mounted:
\* newBackend, then initialize, before any request is served.
LoopbackReset ==
    /\ client' = NoTok /\ clientCfg' = NoCfg /\ sched' = NoTok
    /\ failures' = 0 /\ blocked' = FALSE
    /\ pc' = [p \in Procs |-> "idle"]
    /\ held' = [p \in Procs |-> NoTok]
    /\ lcfg' = [p \in Procs |-> NoCfg]
    /\ stale' = [p \in Procs |-> FALSE]
    /\ UNCHANGED alive

-----------------------------------------------------------------------------
Ensure(p) ==
    EnsureLook(p) \/ EnsureGate(p) \/ EnsureLoginOK(p) \/ EnsureLoginFails(p)
    \/ EnsureRecord(p) \/ EnsureInstall(p)

Use(p) == UseOK(p) \/ UseRefused(p) \/ UseFails(p) \/ UseRecycle(p)

Renew(p) == RenewLook(p) \/ RenewOK(p) \/ RenewRefused(p) \/ RenewFails(p) \/ RenewStore(p)

\* Every step of a call that has begun.
Proceed(p) == Ensure(p) \/ GiveUp(p) \/ Use(p) \/ Discard(p) \/ Renew(p)

LoopbackNext ==
    \/ \E p \in Procs : Request(p) \/ TickStart(p) \/ Proceed(p)
    \/ TokenDies
    \/ BackoffElapses
    \/ ConfigWrite /\ UNCHANGED lvars
    \/ ConfigRestart /\ LoopbackReset

LoopbackSpec == LoopbackInit /\ [][LoopbackNext]_vars

\* The runtime runs every goroutine and every RPC comes back (the requests carry
\* a context with a deadline); the framework calls periodic again and again; the
\* clock advances; and a login that is tried again and again succeeds some day.
LoopbackFairness ==
    /\ \A p \in Procs : WF_vars(Proceed(p)) /\ SF_vars(EnsureLoginOK(p))
    /\ \A p \in Tickers : WF_vars(TickStart(p))
    /\ WF_vars(BackoffElapses)
    /\ \A a \in Admins : WF_vars(ConfigCache(a) /\ UNCHANGED lvars)

LoopbackFairSpec == LoopbackSpec /\ LoopbackFairness

-----------------------------------------------------------------------------
ClientTypeOK ==
    /\ client \in Tokens \cup {NoTok}
    /\ clientCfg \in ValidCfgs \cup {NoCfg}
    /\ sched \in Tokens \cup {NoTok}
    /\ failures \in 0..MaxFailures
    /\ blocked \in BOOLEAN
    /\ alive \subseteq Tokens
    /\ held \in [Procs -> Tokens \cup {NoTok}]
    /\ lcfg \in [Procs -> ValidCfgs \cup {NoCfg}]
    /\ stale \in [Procs -> BOOLEAN]

\* The types of the engine's client state; a configuration that reaches a login
\* or a client has passed validation.
LoopbackTypeOK == ConfigTypeOK /\ ClientTypeOK /\ pc \in [Procs -> TickerPCs]

\* A client that was discarded, for a 403 or with its recycled token, is never
\* the current one again: late installs and late renewals of the processes that
\* still hold it cannot bring it back.
DiscardedNeverReturns == \A p \in Procs : stale[p] => client # held[p]

\* The governor holds logins back only while failures are on record: a success
\* clears both, whatever other attempts end at the same time.
BackoffHasCause == blocked => failures > 0

\* The schedule describes the current client, and is zeroed with it
\* (backend.go: "seeded by ensureLoopbackClient's login TTL, refreshed by a
\* successful periodic renewal, zeroed on invalidation").
ScheduleFollowsClient == sched = client

\* The engine dereferences against the address it is configured with, once no
\* configuration write is in flight (README, config fields: api_addr is the
\* "address voidstar dereferences targets against").
ClientFollowsConfig ==
    client # NoTok /\ (\A a \in Admins : acfg[a] = NoCfg) => clientCfg = config

\* Once configured the engine is never wedged: however logins fail, tokens die
\* and clients are discarded, a client is installed again and again.
NeverWedged == []<>(client # NoTok \/ config = NoCfg)

\* Every call that has begun returns: nothing waits on a client, on the governor
\* or on another call.
EveryCallReturns == \A p \in Procs : pc[p] # "idle" ~> pc[p] = "idle"
=============================================================================
