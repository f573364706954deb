----------------------------- MODULE Dereference -----------------------------
(***************************************************************************)
(* The dereferencing read of data/<view> and the mappings it reads:        *)
(* pathDataRead, the static contract with its revocation and quarantine,   *)
(* and the admin/map writes and deletes that run beside it                 *)
(* (src/backend/paths_data.go, dereference.go, paths_map.go).              *)
(*                                                                         *)
(* A request takes the mapping entry out of storage once and acts on that  *)
(* copy until it answers; nothing is locked in between.  What a target     *)
(* answers is a choice of OpenBao: plain data, a response with a lease, a  *)
(* renewable one without, a 403 or another error.  Reader steps that use   *)
(* the client refine the ones of module Loopback; see AsLoopback below.    *)
(***************************************************************************)
EXTENDS Loopback, FiniteSets

CONSTANTS
    Mappers,            \* admin/map writes that may be in flight together
    Views,
    Targets,            \* targets in canonical form: records [mount, field]
    NoEntry,            \* no mapping entry
    MaxWrites,          \* bound: mapping writes in a behaviour
    MaxCount,           \* bound: a failure counter stays there
    PutMayFail,         \* whether storage may fail the write of a mapping
    SelfRevokeMayFail   \* whether OpenBao may fail to revoke a live token

\* The identity of a mapping write: WriteTime, taken to be unique.
Gens == 1..MaxWrites

Outcomes == {"none", "revoked", "token recycled"}

Entries == [target : Targets, gen : Gens, quarantined : BOOLEAN, outcome : Outcomes]

Mounts == {t.mount : t \in Targets}

\* The failureClass constants of paths_status.go.
Classes == {"upstream_read_failure", "missing_field", "lease_violation",
            "revocation_failure", "quarantined_fastfail"}

\* No entry, no write in flight, and none of what AsLedger makes of them.
ASSUME NoEntryAssumption ==
    NoEntry \notin Entries \cup [view : Views, entry : Entries]
                 \cup [gen : Gens, quarantined : BOOLEAN] \cup [view : Views, gen : Gens]
ASSUME DerefBoundsAssumption == MaxWrites \in Nat /\ MaxCount \in Nat
ASSUME DerefFlagAssumption == PutMayFail \in BOOLEAN /\ SelfRevokeMayFail \in BOOLEAN

VARIABLES
    store,              \* the `map/<view>` storage entries
    lastGen,            \* the last mapping write
    mreq,               \* per admin/map write: checked, but not stored yet
    view,               \* the view each reader was asked for
    entry,              \* the entry each reader took out of storage
    class,              \* the failure each reader is about to answer with
    outcome,            \* the revocation outcome each reader will record
    leases,             \* OpenBao: readers whose response's lease is live
    failureCounters,    \* Backend.failureCounters
    condemned,          \* history: entries a read answered lease_violation for
    warned,             \* history: condemned, when each reader's request began
    retired             \* history: entries replaced or deleted by admin/map

readvars == <<view, entry, class, outcome, warned>>
mapvars == <<store, lastGen, mreq, retired>>
dvars == <<mapvars, readvars, leases, failureCounters, condemned>>
allvars == <<vars, dvars>>

Quiet == UNCHANGED <<mapvars, readvars, leases, failureCounters, condemned>>

DerefPCs == TickerPCs \cup {"lookup", "revoke", "recycle", "quarantine", "unwrap", "fail"}

-----------------------------------------------------------------------------
DerefInit ==
    /\ LoopbackInit
    /\ store = [v \in Views |-> NoEntry]
    /\ lastGen = 0
    /\ mreq = [m \in Mappers |-> NoEntry]
    /\ view \in [Readers -> Views]
    /\ entry = [p \in Readers |-> NoEntry]
    /\ class = [p \in Readers |-> "none"]
    /\ outcome = [p \in Readers |-> "none"]
    /\ leases = {}
    /\ failureCounters = [m \in Mounts |-> [c \in Classes |-> 0]]
    /\ condemned = {}
    /\ warned = [p \in Readers |-> {}]
    /\ retired = {}

Key(v, e) == <<v, e.gen>>

\* recordFailure, up to the bound.
RecordFailure(mount, c) ==
    failureCounters' = [failureCounters EXCEPT ![mount][c] =
                            IF @ < MaxCount THEN @ + 1 ELSE @]

\* A reader goes on without the client and keeps what the rest of it needs.
Release(p, l) ==
    /\ Goto(p, l)
    /\ Hold(p, NoTok)
    /\ stale' = [stale EXCEPT ![p] = FALSE]

FailWith(p, c) ==
    /\ Release(p, "fail")
    /\ class' = [class EXCEPT ![p] = c]
    /\ UNCHANGED <<shared, lcfg, view, entry, outcome, warned, leases, failureCounters, condemned>>

\* The request is answered and its locals are gone.
Answer(p) ==
    /\ Release(p, "idle")
    /\ entry' = [entry EXCEPT ![p] = NoEntry]
    /\ class' = [class EXCEPT ![p] = "none"]
    /\ outcome' = [outcome EXCEPT ![p] = "none"]
    /\ warned' = [warned EXCEPT ![p] = {}]
    /\ UNCHANGED <<shared, lcfg, view, mapvars>>

-----------------------------------------------------------------------------
(* admin/map                                                               *)

\* Mutant: the mount is not checked.
MapCheckUnchecked(m) ==
    /\ mreq[m] = NoEntry
    /\ lastGen < MaxWrites
    /\ \E v \in Views, t \in Targets :
          mreq' = [mreq EXCEPT ![m] =
              [view |-> v, entry |-> [target |-> t, gen |-> lastGen + 1,
                                      quarantined |-> FALSE, outcome |-> "none"]]]
    /\ lastGen' = lastGen + 1
    /\ UNCHANGED <<store, retired, readvars, leases, failureCounters, condemned>>

\* pathMapWrite up to the entry it builds: target and adapter are well formed,
\* and the mount is checked against the configuration cached at this moment.
MapCheck(m) ==
    /\ mreq[m] = NoEntry
    /\ lastGen < MaxWrites
    /\ \E v \in Views, t \in Targets :
          /\ TargetMountAllowed(config, t.mount)
          /\ mreq' = [mreq EXCEPT ![m] =
                 [view |-> v,
                  entry |-> [target |-> t, gen |-> lastGen + 1,
                             quarantined |-> FALSE, outcome |-> "none"]]]
    /\ lastGen' = lastGen + 1
    /\ UNCHANGED <<store, retired, readvars, leases, failureCounters, condemned>>

\* The entry an admin/map operation on v takes away.
Replaced(v) == IF store[v] = NoEntry THEN {} ELSE {Key(v, store[v])}

\* Mutant: a rewrite keeps the quarantine mark of the entry it replaces.
MapPutKeepsMark(m) ==
    /\ mreq[m] # NoEntry
    /\ LET r == mreq[m]
           marked == store[r.view] # NoEntry /\ store[r.view].quarantined
       IN  /\ store' = [store EXCEPT ![r.view] = [r.entry EXCEPT !.quarantined = marked]]
           /\ retired' = retired \cup Replaced(r.view)
    /\ mreq' = [mreq EXCEPT ![m] = NoEntry]
    /\ UNCHANGED <<lastGen, readvars, leases, failureCounters, condemned>>

\* pathMapWrite's Storage.Put; one that fails ends the request.
MapPut(m) ==
    /\ mreq[m] # NoEntry
    /\ LET r == mreq[m]
       IN  \/ /\ store' = [store EXCEPT ![r.view] = r.entry]
              /\ retired' = retired \cup Replaced(r.view)
           \/ PutMayFail /\ UNCHANGED <<store, retired>>
    /\ mreq' = [mreq EXCEPT ![m] = NoEntry]
    /\ UNCHANGED <<lastGen, readvars, leases, failureCounters, condemned>>

\* pathMapDelete.
MapDelete(v) ==
    /\ store[v] # NoEntry
    /\ store' = [store EXCEPT ![v] = NoEntry]
    /\ retired' = retired \cup Replaced(v)
    /\ UNCHANGED <<lastGen, mreq, readvars, leases, failureCounters, condemned>>

-----------------------------------------------------------------------------
(* data/<view>                                                             *)

DataRead(p) ==
    /\ p \in Readers /\ pc[p] = "idle"
    /\ \E v \in Views : view' = [view EXCEPT ![p] = v]
    /\ warned' = [warned EXCEPT ![p] = condemned]
    /\ Goto(p, "lookup")
    /\ UNCHANGED <<shared, held, lcfg, stale>>
    /\ UNCHANGED <<mapvars, entry, class, outcome, leases, failureCounters, condemned>>

\* Mutant: the entry's quarantine mark is not looked at.
LookupIgnoresQuarantine(p) ==
    /\ pc[p] = "lookup"
    /\ LET e == store[view[p]]
       IN  \/ Answer(p) /\ UNCHANGED failureCounters
           \/ /\ e # NoEntry
              /\ entry' = [entry EXCEPT ![p] = e]
              /\ Goto(p, "look")
              /\ UNCHANGED <<shared, held, lcfg, stale>>
              /\ UNCHANGED <<mapvars, view, class, outcome, warned, failureCounters>>
    /\ UNCHANGED <<leases, condemned>>

\* getMappingFromStorage: the request ends here when storage fails or has no
\* entry (404), and fast-fails when the entry is quarantined.
Lookup(p) ==
    /\ pc[p] = "lookup"
    /\ LET e == store[view[p]]
       IN  \/ Answer(p) /\ UNCHANGED failureCounters
           \/ /\ e # NoEntry /\ e.quarantined
              /\ RecordFailure(e.target.mount, "quarantined_fastfail")
              /\ Answer(p)
           \/ /\ e # NoEntry /\ ~e.quarantined
              /\ entry' = [entry EXCEPT ![p] = e]
              /\ Goto(p, "look")
              /\ UNCHANGED <<shared, held, lcfg, stale>>
              /\ UNCHANGED <<mapvars, view, class, outcome, warned, failureCounters>>
    /\ UNCHANGED <<leases, condemned>>

\* Mutant: the request asks for a client again instead of failing.
NoClientRetries(p) ==
    /\ p \in Readers /\ pc[p] = "unavailable"
    /\ Goto(p, "look")
    /\ UNCHANGED <<shared, held, lcfg, stale>> /\ Quiet

\* ensureLoopbackClient returned an error.
NoClientFails(p) ==
    /\ p \in Readers /\ pc[p] = "unavailable"
    /\ FailWith(p, "upstream_read_failure")
    /\ UNCHANGED mapvars

\* client.Read answers without lease and not renewable.
ReadStatic(p) ==
    /\ p \in Readers /\ pc[p] = "ready" /\ held[p] \in alive
    /\ Release(p, "unwrap")
    /\ UNCHANGED <<shared, lcfg>> /\ Quiet

\* With a lease.
ReadLeased(p) ==
    /\ p \in Readers /\ pc[p] = "ready" /\ held[p] \in alive
    /\ leases' = leases \cup {p}
    /\ Goto(p, "revoke")
    /\ UNCHANGED <<shared, held, lcfg, stale>>
    /\ UNCHANGED <<mapvars, readvars, failureCounters, condemned>>

\* Renewable, without a lease: there is nothing to revoke.
ReadRenewable(p) ==
    /\ p \in Readers /\ pc[p] = "ready" /\ held[p] \in alive
    /\ Release(p, "quarantine")
    /\ UNCHANGED <<shared, lcfg>> /\ Quiet

\* 403: handleLoopbackErr discards the client, then the request fails.
ReadRefused(p) ==
    /\ p \in Readers /\ pc[p] = "ready"
    /\ Goto(p, "discard")
    /\ UNCHANGED <<shared, held, lcfg, stale>> /\ Quiet

\* Any other error, a target that is not there included.
ReadFails(p) ==
    /\ p \in Readers /\ pc[p] = "ready"
    /\ FailWith(p, "upstream_read_failure")
    /\ UNCHANGED mapvars

\* Mutant: the view is quarantined and the lease is left to expire.
RevokeSkipped(p) ==
    /\ pc[p] = "revoke"
    /\ outcome' = [outcome EXCEPT ![p] = "revoked"]
    /\ Release(p, "quarantine")
    /\ UNCHANGED <<shared, lcfg>>
    /\ UNCHANGED <<mapvars, view, entry, class, warned, leases, failureCounters, condemned>>

\* RevokeLease succeeds.
RevokeOK(p) ==
    /\ pc[p] = "revoke" /\ held[p] \in alive
    /\ leases' = leases \ {p}
    /\ outcome' = [outcome EXCEPT ![p] = "revoked"]
    /\ Release(p, "quarantine")
    /\ UNCHANGED <<shared, lcfg>>
    /\ UNCHANGED <<mapvars, view, entry, class, warned, failureCounters, condemned>>

\* RevokeLease returns an error, whether or not OpenBao revoked the lease.
RevokeFails(p) ==
    /\ pc[p] = "revoke"
    /\ leases' \in {leases, leases \ {p}}
    /\ outcome' = [outcome EXCEPT ![p] = "token recycled"]
    /\ RecordFailure(entry[p].target.mount, "revocation_failure")
    /\ Goto(p, "recycle")
    /\ UNCHANGED <<shared, held, lcfg, stale>>
    /\ UNCHANGED <<mapvars, view, entry, class, warned, condemned>>

\* Mutant: the client is kept after its token was revoked.
RecycleKeepsClient(p) ==
    /\ pc[p] = "recycle" /\ held[p] \in alive
    /\ alive' = alive \ {held[p]}
    /\ leases' = {q \in leases : held[q] \in alive'}
    /\ Release(p, "quarantine")
    /\ UNCHANGED <<cvars, clvars, sched, gvars, lcfg>>
    /\ UNCHANGED <<mapvars, readvars, failureCounters, condemned>>

\* RevokeSelf succeeds: the token's leases, other requests' included, go too.
RecycleOK(p) ==
    /\ pc[p] = "recycle" /\ held[p] \in alive
    /\ alive' = alive \ {held[p]}
    /\ leases' = {q \in leases : held[q] \in alive'}
    /\ Goto(p, "discard")
    /\ UNCHANGED <<cvars, clvars, sched, gvars, held, lcfg, stale>>
    /\ UNCHANGED <<mapvars, readvars, failureCounters, condemned>>

\* RevokeSelf fails, which is logged and nothing else.
RecycleFails(p) ==
    /\ pc[p] = "recycle" /\ (held[p] \in alive => SelfRevokeMayFail)
    /\ Goto(p, "discard")
    /\ UNCHANGED <<shared, held, lcfg, stale>> /\ Quiet

\* invalidateLoopbackClient, from handleLoopbackErr or from checkStaticContract.
DiscardClient(p) ==
    /\ p \in Readers /\ pc[p] = "discard"
    /\ client' = NoTok /\ clientCfg' = NoCfg /\ sched' = NoTok
    /\ stale' = [q \in Procs |-> q # p /\ (stale[q] \/ held[q] \in Discarded(p))]
    /\ Hold(p, NoTok)
    /\ \/ outcome[p] = "token recycled" /\ Goto(p, "quarantine") /\ UNCHANGED class
       \/ /\ outcome[p] # "token recycled"
          /\ Goto(p, "fail") /\ class' = [class EXCEPT ![p] = "upstream_read_failure"]
    /\ UNCHANGED <<cvars, gvars, alive, lcfg>>
    /\ UNCHANGED <<mapvars, view, entry, outcome, warned, leases, failureCounters, condemned>>

\* Mutant: the write keeps the outcome and forgets the mark.
QuarantineUnmarked(p) ==
    /\ pc[p] = "quarantine"
    /\ store' = [store EXCEPT ![view[p]] = [entry[p] EXCEPT !.outcome = outcome[p]]]
    /\ FailWith(p, "lease_violation")
    /\ UNCHANGED <<lastGen, mreq, retired>>

\* Mutant: cause and outcome are swapped in the call.
QuarantineSwapped(p) ==
    /\ pc[p] = "quarantine"
    /\ store' = [store EXCEPT ![view[p]] =
                    [entry[p] EXCEPT !.quarantined = TRUE, !.outcome = "lease-bearing"]]
    /\ FailWith(p, "lease_violation")
    /\ UNCHANGED <<lastGen, mreq, retired>>

\* quarantineMapping writes the reader's own copy of the entry, marked, over
\* whatever the view maps to by now.
Quarantine(p) ==
    /\ pc[p] = "quarantine"
    /\ store' = [store EXCEPT ![view[p]] =
                    [entry[p] EXCEPT !.quarantined = TRUE, !.outcome = outcome[p]]]
    /\ FailWith(p, "lease_violation")
    /\ UNCHANGED <<lastGen, mreq, retired>>

\* The write fails: that is logged, and the read fails as if it had not.
QuarantineFails(p) ==
    /\ PutMayFail
    /\ pc[p] = "quarantine"
    /\ FailWith(p, "lease_violation")
    /\ UNCHANGED mapvars

\* The adapter unwraps the data and the field, if there is one, is there: 200.
UnwrapOK(p) ==
    /\ pc[p] = "unwrap"
    /\ Answer(p)
    /\ UNCHANGED <<leases, failureCounters, condemned>>

\* The data is not of the adapter's shape, or has no such field.
UnwrapFails(p) ==
    /\ pc[p] = "unwrap"
    /\ \/ FailWith(p, "upstream_read_failure")
       \/ entry[p].target.field # "" /\ FailWith(p, "missing_field")
    /\ UNCHANGED mapvars

\* Mutant: a violation is answered without being counted.
FailUncounted(p) ==
    /\ pc[p] = "fail"
    /\ IF class[p] = "lease_violation" THEN UNCHANGED failureCounters
                                       ELSE RecordFailure(entry[p].target.mount, class[p])
    /\ condemned' = IF class[p] = "lease_violation"
                    THEN condemned \cup {Key(view[p], entry[p])} ELSE condemned
    /\ leases' = leases \ {p}
    /\ Answer(p)

\* The failure is counted and answered with a coded 502.
Fail(p) ==
    /\ pc[p] = "fail"
    /\ RecordFailure(entry[p].target.mount, class[p])
    /\ condemned' = IF class[p] = "lease_violation"
                    THEN condemned \cup {Key(view[p], entry[p])} ELSE condemned
    /\ leases' = leases \ {p}
    /\ Answer(p)

-----------------------------------------------------------------------------
\* The steps of a process that only the client and the governor can tell.
ClientStep(p) ==
    /\ \/ TickStart(p)
       \/ p \in Tickers /\ (GiveUp(p) \/ Discard(p))
       \/ Ensure(p)
       \/ Renew(p)
    /\ Quiet

ReaderStep(p) ==
    \/ Lookup(p) \/ NoClientFails(p)
    \/ ReadStatic(p) \/ ReadLeased(p) \/ ReadRenewable(p) \/ ReadRefused(p) \/ ReadFails(p)
    \/ RevokeOK(p) \/ RevokeFails(p) \/ RecycleOK(p) \/ RecycleFails(p) \/ DiscardClient(p)
    \/ Quarantine(p) \/ QuarantineFails(p)
    \/ UnwrapOK(p) \/ UnwrapFails(p) \/ Fail(p)

MapStep ==
    \/ \E m \in Mappers : MapCheck(m) \/ MapPut(m)
    \/ \E v \in Views : MapDelete(v)

\* A token dies with the leases it was the parent of.
TokenDiesWithLeases ==
    /\ TokenDies
    /\ leases' = {q \in leases : held[q] \in alive'}
    /\ UNCHANGED <<mapvars, readvars, failureCounters, condemned>>

\* What the mount keeps is in storage; a write not stored is lost.
DerefReset ==
    /\ mreq' = [m \in Mappers |-> NoEntry]
    /\ entry' = [p \in Readers |-> NoEntry]
    /\ class' = [p \in Readers |-> "none"]
    /\ outcome' = [p \in Readers |-> "none"]
    /\ warned' = [p \in Readers |-> {}]
    /\ leases' = {}
    /\ failureCounters' = [m \in Mounts |-> [c \in Classes |-> 0]]
    /\ UNCHANGED <<store, lastGen, view, condemned, retired>>

DerefNext ==
    \/ \E p \in Procs : ClientStep(p)
    \/ \E p \in Readers : DataRead(p) \/ ReaderStep(p)
    \/ MapStep /\ UNCHANGED vars
    \/ TokenDiesWithLeases
    \/ BackoffElapses /\ Quiet
    \/ ConfigWrite /\ UNCHANGED lvars /\ Quiet
    \/ ConfigRestart /\ LoopbackReset /\ DerefReset

DerefSpec == DerefInit /\ [][DerefNext]_allvars

\* As in Loopback: requests go on, RPCs come back, the rest may or may not be.
DerefFairness ==
    /\ \A p \in Readers : WF_allvars(ReaderStep(p) \/ ClientStep(p))
    /\ \A p \in Tickers : WF_allvars(ClientStep(p))

DerefFairSpec == DerefSpec /\ DerefFairness

-----------------------------------------------------------------------------
DerefTypeOK ==
    /\ ConfigTypeOK
    /\ ClientTypeOK
    /\ pc \in [Procs -> DerefPCs]
    /\ store \in [Views -> Entries \cup {NoEntry}]
    /\ lastGen \in 0..MaxWrites
    /\ mreq \in [Mappers -> [view : Views, entry : Entries] \cup {NoEntry}]
    /\ view \in [Readers -> Views]
    /\ entry \in [Readers -> Entries \cup {NoEntry}]
    /\ class \in [Readers -> Classes \cup {"none"}]
    /\ outcome \in [Readers -> Outcomes]
    /\ leases \subseteq Readers
    /\ failureCounters \in [Mounts -> [Classes -> 0..MaxCount]]
    /\ condemned \subseteq Views \X Gens
    /\ warned \in [Readers -> SUBSET (Views \X Gens)]
    /\ retired \subseteq Views \X Gens

\* Once a read of a view has been answered with the static-contract violation,
\* no request that begins later gets past the lookup with that mapping entry:
\* not through a racing read's copy, not after a restart, not when an older
\* entry is written back (dereference.go: "so every subsequent read of this
\* view fast-fails without a loopback read").
FastFailAfterViolation ==
    \A p \in Readers : entry[p] # NoEntry => Key(view[p], entry[p]) \notin warned[p]

\* A quarantine recorded as "revoked" or "token recycled" leaves no live lease
\* behind: cleaning up comes strictly before the quarantine write.
LeaseSettled ==
    \A p \in Readers :
        pc[p] \in {"quarantine", "fail"} /\ outcome[p] # "none" => p \notin leases

\* An entry is in storage without its quarantine mark only from the write that
\* created it until it is replaced, deleted or quarantined; nothing but a new
\* admin/map write clears a quarantine (mapping.go: "until the mapping is
\* rewritten").
OnlyRewriteClears ==
    [][\A v \in Views :
          store'[v] # store[v] /\ store'[v] # NoEntry =>
              store'[v].quarantined \/ <<v, store'[v].gen>> \notin retired \cup Replaced(v)]_allvars

\* Every mapping in storage is one the stored configuration's allowlist permits,
\* as long as that configuration is not replaced (README: targets are rejected
\* if "absent from a configured target_mount_allowlist").
AllowlistEnforced ==
    \A v \in Views : store[v] # NoEntry => TargetMountAllowed(stored, store[v].target.mount)

\* What admin/map replaced or deleted does not come back (README: POST
\* "replaces the mapping entry", DELETE "deletes the mapping entry").
RetiredStaysRetired ==
    \A v \in Views : store[v] # NoEntry => Key(v, store[v]) \notin retired

\* The counters admin/status shows are coherent while the process lives: where
\* a failed revocation was counted, the violation it belongs to is counted too,
\* or is about to be.
RevocationFailuresExplained ==
    \A m \in Mounts :
        failureCounters[m]["revocation_failure"] > 0 =>
            \/ failureCounters[m]["lease_violation"] > 0
            \/ \E p \in Readers : outcome[p] = "token recycled" /\ entry[p].target.mount = m

\* Every read is answered, whatever OpenBao, storage and the other calls do.
EveryReadAnswered == \A p \in Readers : pc[p] # "idle" ~> pc[p] = "idle"

-----------------------------------------------------------------------------
\* The loopback client does not notice what a reader does with its copy of the
\* mapping entry: before it asks for a client and after it has let go of it, it
\* is idle; while it still may use it, it is ready.
SeenAs(l) ==
    CASE l \in {"lookup", "unwrap", "quarantine", "fail"} -> "idle"
      [] l \in {"revoke", "recycle"} -> "ready"
      [] OTHER -> l

AsLoopback == INSTANCE Loopback WITH pc <- [p \in Procs |-> SeenAs(pc[p])]

\* Dereferencing implements the loopback client's specification.
ImplementsLoopback == AsLoopback!LoopbackSpec

\* What the mappings come to for whoever uses them: the identity of each and its
\* quarantine mark, and the mapping a read took out of storage.  A write that is
\* still on its way to storage has not happened yet.
AsLedger == INSTANCE MappingLedger WITH
    mapping <- [v \in Views |->
        IF store[v] = NoEntry THEN NoEntry
        ELSE [gen |-> store[v].gen, quarantined |-> store[v].quarantined]],
    serving <- [p \in Readers |->
        IF entry[p] = NoEntry THEN NoEntry
        ELSE [view |-> view[p], gen |-> entry[p].gen]],
    spent <- {g \in 1..lastGen :
        \A m \in Mappers : mreq[m] # NoEntry => mreq[m].entry.gen # g}

\* Dereferencing implements the ledger: whatever reads, writes, failures and
\* restarts overlap, a mapping goes live once, no request takes up one that is in
\* quarantine, and none but the request's own mapping is put there
\* (dereference.go: "only a rewrite through vs/admin/map/<view> clears
\* quarantine"; paths_map.go: 'this is what "rewrite clears quarantine" means').
ImplementsLedger == AsLedger!LedgerSpec
=============================================================================
