-------------------------- MODULE DereferenceProofs --------------------------
(* Proofs about Dereference, for every set of processes, views, targets and *)
(* tokens and every number of mapping writes.                               *)
EXTENDS Dereference, LoopbackProofs

-----------------------------------------------------------------------------
(* Type correctness.  A reader has an entry exactly from the lookup to the   *)
(* answer, so the steps that write its copy back write an entry.             *)

ReaderShape ==
    \A p \in Readers :
        /\ pc[p] \notin {"renew", "renewed"}
        /\ entry[p] = NoEntry <=> pc[p] \in {"idle", "lookup"}
        /\ class[p] # "none" => pc[p] = "fail"

DerefShape == DerefTypeOK /\ ReaderShape

LEMMA MaxCountBounds ==
    /\ 0 \in 0..MaxCount
    /\ \A n \in 0..MaxCount : n < MaxCount => n + 1 \in 0..MaxCount
BY DerefBoundsAssumption

LEMMA CountersType ==
    ASSUME failureCounters \in [Mounts -> [Classes -> 0..MaxCount]],
           NEW m, NEW c, RecordFailure(m, c)
    PROVE  failureCounters' \in [Mounts -> [Classes -> 0..MaxCount]]
BY MaxCountBounds DEF RecordFailure

LEMMA DerefShapeInit == DerefInit => DerefShape
<1> SUFFICES ASSUME DerefInit PROVE DerefShape
    OBVIOUS
<1>1. LoopbackTypeOK BY LoopbackTypeInit DEF DerefInit
<1>2. pc = [p \in Procs |-> "idle"] BY DEF DerefInit, LoopbackInit
<1>3. DerefTypeOK
    BY <1>1, <1>2, MaxCountBounds, DerefBoundsAssumption
       DEF DerefInit, DerefTypeOK, LoopbackTypeOK, DerefPCs, TickerPCs, ReaderPCs, Outcomes
<1>4. ReaderShape BY <1>2 DEF DerefInit, ReaderShape, Procs
<1> QED BY <1>3, <1>4 DEF DerefShape

\* Where a step of the client or the governor takes a reader.
LEMMA ClientStepMoves ==
    ASSUME DerefShape, NEW p \in Procs, ClientStep(p)
    PROVE  /\ pc' \in [Procs -> DerefPCs]
           /\ \A q \in Readers :
                 pc'[q] = pc[q] \/ (/\ pc[q] \in EnsurePCs
                                    /\ pc'[q] \in EnsurePCs \cup {"ready", "unavailable"})
<1> USE ProcsAssumption DEF DerefShape, DerefTypeOK, ReaderShape, Procs, Goto, Leave, Return,
        DerefPCs, TickerPCs, ReaderPCs, EnsurePCs
<1>1. CASE TickStart(p) BY <1>1 DEF TickStart
<1>2. CASE p \in Tickers /\ (GiveUp(p) \/ Discard(p)) BY <1>2 DEF GiveUp, Discard
<1>3. CASE Ensure(p)
    BY <1>3 DEF Ensure, EnsureLook, EnsureGate, EnsureLoginOK, EnsureLoginFails,
                EnsureRecord, EnsureInstall
<1>4. CASE Renew(p)
    BY <1>4 DEF Renew, RenewLook, RenewOK, RenewRefused, RenewFails, RenewStore
<1> QED BY <1>1, <1>2, <1>3, <1>4 DEF ClientStep

LEMMA ClientStepShape ==
    ASSUME DerefShape, NEW p \in Procs, ClientStep(p)
    PROVE  DerefShape'
<1>1. ConfigTypeOK' /\ ClientTypeOK'
    <2>1. TickStart(p) \/ Proceed(p) BY DEF ClientStep, Proceed
    <2>2. UNCHANGED cvars
        BY <2>1 DEF TickStart, Proceed, Ensure, Use, Renew, shared,
            EnsureLook, EnsureGate, EnsureLoginOK, EnsureLoginFails, EnsureRecord,
            EnsureInstall, GiveUp, UseOK, UseRefused, UseFails, UseRecycle, Discard,
            RenewLook, RenewOK, RenewRefused, RenewFails, RenewStore
    <2>3. ClientTypeOK' BY <2>1, ProcessTypeStep DEF DerefShape, DerefTypeOK
    <2> QED BY <2>2, <2>3 DEF DerefShape, DerefTypeOK, ConfigTypeOK, cvars
<1>2. pc' \in [Procs -> DerefPCs] BY ClientStepMoves
<1>3. UNCHANGED <<mapvars, readvars, leases, failureCounters, condemned>>
    BY DEF ClientStep, Quiet
<1>4. DerefTypeOK'
    BY <1>1, <1>2, <1>3 DEF DerefShape, DerefTypeOK, mapvars, readvars
<1>5. ReaderShape'
    BY <1>3, ClientStepMoves DEF DerefShape, ReaderShape, readvars, EnsurePCs
<1> QED BY <1>4, <1>5 DEF DerefShape

\* What the mappings' and the reads' parts of the type invariant come to when a
\* reader answers, and when it fails.
LEMMA AnswerShape ==
    ASSUME DerefShape, NEW p \in Readers, Answer(p),
           leases' \subseteq Readers,
           failureCounters' \in [Mounts -> [Classes -> 0..MaxCount]],
           condemned' \subseteq Views \X Gens
    PROVE  DerefShape'
<1> USE DEF DerefShape, DerefTypeOK, ReaderShape, Procs, DerefPCs, TickerPCs, ReaderPCs, Goto,
            Hold, Release, Answer, shared, cvars, clvars, gvars, mapvars
<1>1. ConfigTypeOK' BY DEF ConfigTypeOK
<1>2. ClientTypeOK' BY DEF ClientTypeOK
<1>3. DerefTypeOK' BY <1>1, <1>2 DEF Outcomes
<1>4. ReaderShape' OBVIOUS
<1> QED BY <1>3, <1>4

LEMMA FailWithShape ==
    ASSUME DerefShape, NEW p \in Readers, NEW c \in Classes, FailWith(p, c),
           pc[p] \notin {"idle", "lookup"},
           store' \in [Views -> Entries \cup {NoEntry}],
           UNCHANGED <<lastGen, mreq, retired>>
    PROVE  DerefShape'
<1> USE DEF DerefShape, DerefTypeOK, ReaderShape, Procs, DerefPCs, TickerPCs, ReaderPCs, Goto,
            Hold, Release, FailWith, shared, cvars, clvars, gvars
<1>1. ConfigTypeOK' BY DEF ConfigTypeOK
<1>2. ClientTypeOK' BY DEF ClientTypeOK
<1>3. DerefTypeOK' BY <1>1, <1>2
<1>4. ReaderShape' OBVIOUS
<1> QED BY <1>3, <1>4

LEMMA ReaderStepShape ==
    ASSUME DerefShape, NEW p \in Readers, DataRead(p) \/ ReaderStep(p)
    PROVE  DerefShape'
<1> USE DEF DerefShape, DerefTypeOK
<1>1. CASE Lookup(p)
    <2> DEFINE e == store[view[p]]
    <2>1. CASE Answer(p) /\ UNCHANGED <<failureCounters, leases, condemned>>
        BY <2>1, AnswerShape
    <2>2. CASE /\ RecordFailure(e.target.mount, "quarantined_fastfail")
               /\ Answer(p) /\ UNCHANGED <<leases, condemned>>
        BY <2>2, CountersType, AnswerShape
    <2>3. CASE /\ pc[p] = "lookup" /\ e # NoEntry
               /\ entry' = [entry EXCEPT ![p] = e] /\ Goto(p, "look")
               /\ UNCHANGED <<shared, held, lcfg, stale>>
               /\ UNCHANGED <<mapvars, view, class, outcome, warned, failureCounters>>
               /\ UNCHANGED <<leases, condemned>>
        BY <2>3 DEF ReaderShape, Procs, DerefPCs, TickerPCs, ReaderPCs, EnsurePCs, Goto,
                    ConfigTypeOK, ClientTypeOK, shared, cvars, clvars, gvars, mapvars
    <2> QED BY <1>1, <2>1, <2>2, <2>3 DEF Lookup
<1>2. CASE NoClientFails(p) \/ ReadFails(p) \/ UnwrapFails(p) \/ QuarantineFails(p)
    <2>1. PICK c \in Classes : FailWith(p, c)
        BY <1>2 DEF NoClientFails, ReadFails, UnwrapFails, QuarantineFails, Classes
    <2>2. pc[p] \notin {"idle", "lookup"} /\ UNCHANGED mapvars
        BY <1>2 DEF NoClientFails, ReadFails, UnwrapFails, QuarantineFails
    <2> QED BY <2>1, <2>2, FailWithShape DEF mapvars
<1>3. CASE Quarantine(p)
    <2>1. entry[p] \in Entries
        BY <1>3 DEF Quarantine, ReaderShape
    <2>2. [entry[p] EXCEPT !.quarantined = TRUE, !.outcome = outcome[p]] \in Entries
        BY <2>1 DEF Entries
    <2>3. store' \in [Views -> Entries \cup {NoEntry}]
        BY <1>3, <2>2 DEF Quarantine
    <2> QED BY <1>3, <2>3, FailWithShape DEF Quarantine, Classes
<1>4. CASE UnwrapOK(p) BY <1>4, AnswerShape DEF UnwrapOK
<1>5. CASE Fail(p)
    <2>1. entry[p] \in Entries BY <1>5 DEF Fail, ReaderShape
    <2>2. Key(view[p], entry[p]) \in Views \X Gens BY <2>1 DEF Key, Entries
    <2>3. condemned' \subseteq Views \X Gens BY <1>5, <2>2 DEF Fail
    <2> QED BY <1>5, <2>3, CountersType, AnswerShape DEF Fail
<1> USE ProcsAssumption
        DEF ReaderShape, Procs, DerefPCs, TickerPCs, ReaderPCs, EnsurePCs, Goto, Hold, Release,
            Quiet, ConfigTypeOK, ClientTypeOK, shared, cvars, clvars, gvars, mapvars, readvars
<1>6. CASE DataRead(p) BY <1>6 DEF DataRead
<1>7. CASE ReadStatic(p) \/ ReadLeased(p) BY <1>7 DEF ReadStatic, ReadLeased
<1>8. CASE ReadRenewable(p) \/ ReadRefused(p) BY <1>8 DEF ReadRenewable, ReadRefused
<1>9. CASE RevokeOK(p) BY <1>9 DEF RevokeOK, Outcomes
<1>10. CASE RevokeFails(p) BY <1>10, CountersType DEF RevokeFails, Outcomes
<1>11. CASE RecycleOK(p) \/ RecycleFails(p) BY <1>11 DEF RecycleOK, RecycleFails
<1>12. CASE DiscardClient(p) BY <1>12 DEF DiscardClient, Classes
<1> QED BY <1>1, <1>2, <1>3, <1>4, <1>5, <1>6, <1>7, <1>8, <1>9, <1>10, <1>11, <1>12
        DEF ReaderStep

LEMMA DerefShapeStep == DerefShape /\ [DerefNext]_allvars => DerefShape'
<1> SUFFICES ASSUME DerefShape, [DerefNext]_allvars PROVE DerefShape'
    OBVIOUS
<1>1. ASSUME NEW p \in Procs, ClientStep(p) PROVE DerefShape'
    BY <1>1, ClientStepShape
<1>2. ASSUME NEW p \in Readers, DataRead(p) \/ ReaderStep(p) PROVE DerefShape'
    BY <1>2, ReaderStepShape
<1> USE DEF DerefShape, DerefTypeOK, ReaderShape
<1>3. ASSUME NEW m \in Mappers, MapCheck(m), UNCHANGED vars PROVE DerefShape'
    <2>1. PICK v \in Views, t \in Targets :
              mreq' = [mreq EXCEPT ![m] =
                  [view |-> v,
                   entry |-> [target |-> t, gen |-> lastGen + 1,
                              quarantined |-> FALSE, outcome |-> "none"]]]
        BY <1>3 DEF MapCheck
    <2>2. lastGen + 1 \in Gens /\ lastGen + 1 \in 0..MaxWrites
        BY <1>3, DerefBoundsAssumption DEF MapCheck, Gens
    <2>3. mreq' \in [Mappers -> [view : Views, entry : Entries] \cup {NoEntry}]
        BY <2>1, <2>2 DEF Entries, Outcomes
    <2> QED BY <1>3, <2>2, <2>3 DEF MapCheck, vars, readvars, ConfigTypeOK, ClientTypeOK
<1>4. ASSUME NEW m \in Mappers, MapPut(m), UNCHANGED vars PROVE DerefShape'
    <2>1. mreq[m].view \in Views /\ mreq[m].entry \in Entries
        BY <1>4 DEF MapPut
    <2>2. Replaced(mreq[m].view) \subseteq Views \X Gens
        BY <2>1 DEF Replaced, Key, Entries
    <2>3. /\ store' \in [Views -> Entries \cup {NoEntry}]
          /\ retired' \subseteq Views \X Gens
          /\ mreq' \in [Mappers -> [view : Views, entry : Entries] \cup {NoEntry}]
        BY <1>4, <2>1, <2>2 DEF MapPut
    <2> QED BY <1>4, <2>3 DEF MapPut, vars, readvars, ConfigTypeOK, ClientTypeOK
<1>5. ASSUME NEW v \in Views, MapDelete(v), UNCHANGED vars PROVE DerefShape'
    <2>1. Replaced(v) \subseteq Views \X Gens
        BY DEF Replaced, Key, Entries
    <2> QED BY <1>5, <2>1 DEF MapDelete, vars, readvars, ConfigTypeOK, ClientTypeOK
<1>6. CASE TokenDiesWithLeases
    BY <1>6 DEF TokenDiesWithLeases, TokenDies, cvars, clvars, gvars, mapvars, readvars,
                ConfigTypeOK, ClientTypeOK
<1>7. CASE BackoffElapses /\ Quiet
    BY <1>7 DEF BackoffElapses, Quiet, cvars, clvars, mapvars, readvars,
                ConfigTypeOK, ClientTypeOK
<1>8. CASE ConfigWrite /\ UNCHANGED lvars /\ Quiet
    <2>1. ConfigTypeOK' BY <1>8, ConfigTypeStep DEF ConfigNext
    <2> QED BY <1>8, <2>1 DEF Quiet, lvars, mapvars, readvars, ClientTypeOK
<1>9. CASE ConfigRestart /\ LoopbackReset /\ DerefReset
    <2>1. ConfigTypeOK' BY <1>9, ConfigTypeStep DEF ConfigNext
    <2>2. ClientTypeOK' BY <1>9, MaxFailuresPositive DEF LoopbackReset, ClientTypeOK
    <2>3. pc' = [p \in Procs |-> "idle"] BY <1>9 DEF LoopbackReset
    <2>4. DerefTypeOK'
        BY <1>9, <2>1, <2>2, <2>3, MaxCountBounds
           DEF DerefReset, DerefPCs, TickerPCs, ReaderPCs, Outcomes
    <2>5. ReaderShape' BY <1>9, <2>3 DEF DerefReset, Procs
    <2> QED BY <2>4, <2>5
<1>10. CASE UNCHANGED allvars
    BY <1>10 DEF allvars, vars, dvars, mapvars, readvars, ConfigTypeOK, ClientTypeOK
<1> QED BY <1>1, <1>2, <1>3, <1>4, <1>5, <1>6, <1>7, <1>8, <1>9, <1>10 DEF DerefNext, MapStep

\* Type correctness, with what a reader is known to hold where.
THEOREM DerefTypeCorrect == DerefSpec => []DerefTypeOK
<1>1. DerefInit => DerefShape BY DerefShapeInit
<1>2. DerefShape /\ [DerefNext]_allvars => DerefShape' BY DerefShapeStep
<1>3. DerefShape => DerefTypeOK BY DEF DerefShape
<1> QED BY <1>1, <1>2, <1>3, PTL DEF DerefSpec

-----------------------------------------------------------------------------
(* Leases.  A response's lease is live only while its reader is on the way  *)
(* to revoke it, under a token that is alive.                               *)

LeaseInCare ==
    \A p \in Readers : p \in leases => pc[p] \in {"revoke", "recycle"} /\ held[p] \in alive

LEMMA LeaseStep ==
    ASSUME ~SelfRevokeMayFail, DerefShape, LeaseInCare, [DerefNext]_allvars
    PROVE  LeaseInCare'
<1> USE DEF DerefShape, DerefTypeOK, LeaseInCare, Procs
<1>1. ASSUME NEW p \in Procs, ClientStep(p) PROVE LeaseInCare'
    <2>1. leases' = leases BY <1>1 DEF ClientStep, Quiet
    <2>2. \A q \in leases : pc'[q] = pc[q] BY <1>1, ClientStepMoves DEF EnsurePCs
    <2>3. \A q \in leases : held'[q] = held[q]
        BY <1>1, ProcsAssumption
           DEF ClientStep, TickStart, Ensure, EnsureLook, EnsureGate, EnsureLoginOK,
               EnsureLoginFails, EnsureRecord, EnsureInstall, GiveUp, Discard, Renew,
               RenewLook, RenewOK, RenewRefused, RenewFails, RenewStore, Hold, Return,
               ReaderShape, ClientTypeOK
    <2>4. alive \subseteq alive'
        BY <1>1 DEF ClientStep, TickStart, Ensure, EnsureLook, EnsureGate, EnsureLoginOK,
               EnsureLoginFails, EnsureRecord, EnsureInstall, GiveUp, Discard, Renew,
               RenewLook, RenewOK, RenewRefused, RenewFails, RenewStore, shared
    <2> QED BY <2>1, <2>2, <2>3, <2>4
<1>2. ASSUME NEW p \in Readers, DataRead(p) \/ ReaderStep(p) PROVE LeaseInCare'
    <2> USE DEF ClientTypeOK, Goto, Hold, Release, FailWith, Answer, Quiet, shared, mapvars, readvars
    <2>1. CASE DataRead(p) \/ Lookup(p) BY <2>1 DEF DataRead, Lookup
    <2>2. CASE NoClientFails(p) \/ ReadFails(p) \/ UnwrapFails(p) \/ QuarantineFails(p)
        BY <2>2 DEF NoClientFails, ReadFails, UnwrapFails, QuarantineFails
    <2>3. CASE ReadStatic(p) \/ ReadRenewable(p) \/ ReadRefused(p)
        BY <2>3 DEF ReadStatic, ReadRenewable, ReadRefused
    <2>4. CASE ReadLeased(p) BY <2>4 DEF ReadLeased
    <2>5. CASE RevokeOK(p) \/ RevokeFails(p) BY <2>5 DEF RevokeOK, RevokeFails
    <2>6. CASE RecycleOK(p) BY <2>6 DEF RecycleOK
    <2>7. CASE RecycleFails(p) BY <2>7 DEF RecycleFails
    <2>8. CASE DiscardClient(p) BY <2>8 DEF DiscardClient
    <2>9. CASE Quarantine(p) \/ UnwrapOK(p) \/ Fail(p) BY <2>9 DEF Quarantine, UnwrapOK, Fail
    <2> QED BY <1>2, <2>1, <2>2, <2>3, <2>4, <2>5, <2>6, <2>7, <2>8, <2>9 DEF ReaderStep
<1>3. CASE MapStep /\ UNCHANGED vars
    BY <1>3 DEF MapStep, MapCheck, MapPut, MapDelete, vars
<1>4. CASE TokenDiesWithLeases BY <1>4 DEF TokenDiesWithLeases, TokenDies
<1>5. CASE BackoffElapses /\ Quiet BY <1>5 DEF BackoffElapses, Quiet
<1>6. CASE ConfigWrite /\ UNCHANGED lvars /\ Quiet BY <1>6 DEF lvars, Quiet
<1>7. CASE ConfigRestart /\ LoopbackReset /\ DerefReset BY <1>7 DEF DerefReset
<1>8. CASE UNCHANGED allvars BY <1>8 DEF allvars, vars, dvars
<1> QED BY <1>1, <1>2, <1>3, <1>4, <1>5, <1>6, <1>7, <1>8 DEF DerefNext

\* As long as a live token can revoke itself, a quarantine is recorded, and the
\* read answered, only after the lease that caused it is gone.
THEOREM LeasesSettled ==
    ASSUME ~SelfRevokeMayFail
    PROVE  DerefSpec => []LeaseSettled
<1>1. DerefInit => DerefShape /\ LeaseInCare
    BY DerefShapeInit DEF DerefInit, LeaseInCare
<1>2. DerefShape /\ LeaseInCare /\ [DerefNext]_allvars => DerefShape' /\ LeaseInCare'
    BY DerefShapeStep, LeaseStep
<1>3. LeaseInCare => LeaseSettled BY DEF LeaseInCare, LeaseSettled
<1> QED BY <1>1, <1>2, <1>3, PTL DEF DerefSpec

\* Of a revocation that succeeded nothing has to be assumed.
RevokedIsGone == \A p \in Readers : outcome[p] = "revoked" => p \notin leases

RevokedInCare ==
    \A p \in Readers : outcome[p] = "revoked" => pc[p] \in {"quarantine", "fail"} /\ p \notin leases

LEMMA RevokedStep ==
    ASSUME DerefShape, RevokedInCare, [DerefNext]_allvars
    PROVE  RevokedInCare'
<1> USE DEF DerefShape, DerefTypeOK, RevokedInCare, Procs
<1>1. ASSUME NEW p \in Procs, ClientStep(p) PROVE RevokedInCare'
    <2>1. leases' = leases /\ outcome' = outcome BY <1>1 DEF ClientStep, Quiet, readvars
    <2> QED BY <1>1, <2>1, ClientStepMoves DEF EnsurePCs
<1>2. ASSUME NEW p \in Readers, DataRead(p) \/ ReaderStep(p) PROVE RevokedInCare'
    <2> USE DEF Goto, Hold, Release, FailWith, Answer, Quiet, shared, mapvars, readvars
    <2>1. CASE DataRead(p) \/ Lookup(p) BY <2>1 DEF DataRead, Lookup
    <2>2. CASE NoClientFails(p) \/ ReadFails(p) \/ UnwrapFails(p) \/ QuarantineFails(p)
        BY <2>2 DEF NoClientFails, ReadFails, UnwrapFails, QuarantineFails
    <2>3. CASE ReadStatic(p) \/ ReadLeased(p) \/ ReadRenewable(p) \/ ReadRefused(p)
        BY <2>3 DEF ReadStatic, ReadLeased, ReadRenewable, ReadRefused
    <2>4. CASE RevokeOK(p) BY <2>4 DEF RevokeOK
    <2>5. CASE RevokeFails(p) \/ RecycleOK(p) \/ RecycleFails(p)
        BY <2>5 DEF RevokeFails, RecycleOK, RecycleFails
    <2>6. CASE DiscardClient(p) BY <2>6 DEF DiscardClient
    <2>7. CASE Quarantine(p) \/ UnwrapOK(p) \/ Fail(p) BY <2>7 DEF Quarantine, UnwrapOK, Fail
    <2> QED BY <1>2, <2>1, <2>2, <2>3, <2>4, <2>5, <2>6, <2>7 DEF ReaderStep
<1>3. CASE MapStep /\ UNCHANGED vars
    BY <1>3 DEF MapStep, MapCheck, MapPut, MapDelete, vars, readvars
<1>4. CASE TokenDiesWithLeases BY <1>4 DEF TokenDiesWithLeases, TokenDies, readvars
<1>5. CASE BackoffElapses /\ Quiet BY <1>5 DEF BackoffElapses, Quiet, readvars
<1>6. CASE ConfigWrite /\ UNCHANGED lvars /\ Quiet BY <1>6 DEF lvars, Quiet, readvars
<1>7. CASE ConfigRestart /\ LoopbackReset /\ DerefReset BY <1>7 DEF DerefReset
<1>8. CASE UNCHANGED allvars BY <1>8 DEF allvars, vars, dvars, readvars
<1> QED BY <1>1, <1>2, <1>3, <1>4, <1>5, <1>6, <1>7, <1>8 DEF DerefNext

\* A quarantine says "revoked" of a lease that is gone, whether or not OpenBao
\* lets tokens revoke themselves: of the two outcomes checkStaticContract
\* records, the one LeasesSettled needs its hypothesis for is the other.
THEOREM RevocationsHold == DerefSpec => []RevokedIsGone
<1>1. DerefInit => DerefShape /\ RevokedInCare
    BY DerefShapeInit DEF DerefInit, RevokedInCare
<1>2. DerefShape /\ RevokedInCare /\ [DerefNext]_allvars => DerefShape' /\ RevokedInCare'
    BY DerefShapeStep, RevokedStep
<1>3. RevokedInCare => RevokedIsGone BY DEF RevokedInCare, RevokedIsGone
<1> QED BY <1>1, <1>2, <1>3, PTL DEF DerefSpec

-----------------------------------------------------------------------------
(* Mapping writes.  A write that is checked and not stored yet is known to   *)
(* nobody: no entry in storage, in a reader's hands or in the history is it. *)

Unseen(g) ==
    /\ \A v \in Views : store[v] # NoEntry => store[v].gen # g
    /\ \A p \in Readers : entry[p] # NoEntry => entry[p].gen # g
    /\ \A k \in condemned \cup retired : k[2] # g

Ledger ==
    /\ \A g \in Gens : g > lastGen => Unseen(g)
    /\ \A m \in Mappers : mreq[m] # NoEntry =>
           /\ mreq[m].entry.gen <= lastGen
           /\ ~mreq[m].entry.quarantined
           /\ Unseen(mreq[m].entry.gen)
           /\ \A n \in Mappers \ {m} :
                 mreq[n] # NoEntry => mreq[n].entry.gen # mreq[m].entry.gen

\* A step that shows the world no entry it has not seen leaves an unseen one so.
LEMMA UnseenStays ==
    ASSUME NEW g, Unseen(g),
           \A v \in Views : store'[v] # NoEntry =>
               \/ store[v] # NoEntry /\ store'[v].gen = store[v].gen
               \/ \E p \in Readers : entry[p] # NoEntry /\ store'[v].gen = entry[p].gen,
           \A p \in Readers : entry'[p] # NoEntry =>
               \/ entry[p] # NoEntry /\ entry'[p].gen = entry[p].gen
               \/ \E v \in Views : store[v] # NoEntry /\ entry'[p].gen = store[v].gen,
           \A k \in condemned' \cup retired' :
               \/ k \in condemned \cup retired
               \/ \E v \in Views : store[v] # NoEntry /\ k[2] = store[v].gen
               \/ \E p \in Readers : entry[p] # NoEntry /\ k[2] = entry[p].gen
    PROVE  Unseen(g)'
BY DEF Unseen

\* What a reader does shows the world nothing new.
LEMMA ReaderStepSeen ==
    ASSUME DerefShape, NEW p \in Readers, DataRead(p) \/ ReaderStep(p), NEW g, Unseen(g)
    PROVE  Unseen(g)'
<1> USE DEF DerefShape, DerefTypeOK, ReaderShape
<1>1. CASE DataRead(p) BY <1>1, UnseenStays DEF DataRead, mapvars
<1>2. CASE Lookup(p)
    <2>1. CASE Answer(p) /\ UNCHANGED condemned
        BY <2>1, UnseenStays DEF Answer, mapvars
    <2>2. CASE ~Answer(p)
        BY <1>2, <2>2, UnseenStays DEF Lookup, mapvars
    <2> QED BY <1>2, <2>1, <2>2 DEF Lookup
<1>3. CASE NoClientFails(p) \/ ReadFails(p) \/ UnwrapFails(p) \/ QuarantineFails(p)
    BY <1>3, UnseenStays
       DEF NoClientFails, ReadFails, UnwrapFails, QuarantineFails, FailWith, mapvars
<1>4. CASE ReadStatic(p) \/ ReadLeased(p) \/ ReadRenewable(p) \/ ReadRefused(p)
    BY <1>4, UnseenStays
       DEF ReadStatic, ReadLeased, ReadRenewable, ReadRefused, Quiet, mapvars, readvars
<1>5. CASE RevokeOK(p) \/ RevokeFails(p) \/ DiscardClient(p)
    BY <1>5, UnseenStays DEF RevokeOK, RevokeFails, DiscardClient, mapvars
<1>6. CASE RecycleOK(p) \/ RecycleFails(p)
    BY <1>6, UnseenStays DEF RecycleOK, RecycleFails, Quiet, mapvars, readvars
<1>7. CASE Quarantine(p)
    <2>1. entry[p] \in Entries BY <1>7 DEF Quarantine
    <2>2. [entry[p] EXCEPT !.quarantined = TRUE, !.outcome = outcome[p]].gen = entry[p].gen
        BY <2>1 DEF Entries
    <2>3. \A v \in Views : store'[v] = store[v] \/ store'[v].gen = entry[p].gen
        BY <1>7, <2>2 DEF Quarantine
    <2>4. entry[p] # NoEntry BY <2>1, NoEntryAssumption
    <2> QED BY <1>7, <2>3, <2>4, UnseenStays DEF Quarantine, FailWith
<1>8. CASE UnwrapOK(p) BY <1>8, UnseenStays DEF UnwrapOK, Answer, mapvars
<1>9. CASE Fail(p)
    <2>1. entry[p] # NoEntry BY <1>9 DEF Fail
    <2>2. Key(view[p], entry[p])[2] = entry[p].gen BY DEF Key
    <2>3. \A k \in condemned' \cup retired' :
              k \in condemned \cup retired \/ k[2] = entry[p].gen
        BY <1>9, <2>2 DEF Fail, Answer, mapvars
    <2> QED BY <1>9, <2>1, <2>3, UnseenStays DEF Fail, Answer, mapvars
<1> QED BY <1>1, <1>2, <1>3, <1>4, <1>5, <1>6, <1>7, <1>8, <1>9 DEF ReaderStep

\* Nor does anything else, short of storing a mapping write.
LEMMA OtherStepSeen ==
    ASSUME DerefShape, [DerefNext]_allvars, ~\E m \in Mappers : MapPut(m), NEW g, Unseen(g)
    PROVE  Unseen(g)'
<1>1. ASSUME NEW p \in Procs, ClientStep(p) PROVE Unseen(g)'
    BY <1>1 DEF ClientStep, Quiet, mapvars, readvars, Unseen
<1>2. ASSUME NEW p \in Readers, DataRead(p) \/ ReaderStep(p) PROVE Unseen(g)'
    BY <1>2, ReaderStepSeen
<1>3. ASSUME NEW m \in Mappers, MapCheck(m) PROVE Unseen(g)'
    BY <1>3 DEF MapCheck, readvars, Unseen
<1>4. ASSUME NEW v \in Views, MapDelete(v) PROVE Unseen(g)'
    <2>1. \A k \in Replaced(v) : store[v] # NoEntry /\ k[2] = store[v].gen
        BY DEF Replaced, Key
    <2> QED BY <1>4, <2>1, UnseenStays DEF MapDelete, readvars, DerefShape, DerefTypeOK
<1>5. CASE TokenDiesWithLeases
    BY <1>5 DEF TokenDiesWithLeases, mapvars, readvars, Unseen
<1>6. CASE (BackoffElapses \/ ConfigWrite) /\ Quiet
    BY <1>6 DEF Quiet, mapvars, readvars, Unseen
<1>7. CASE DerefReset BY <1>7 DEF DerefReset, Unseen
<1>8. CASE UNCHANGED allvars BY <1>8 DEF allvars, dvars, mapvars, readvars, Unseen
<1> QED BY <1>1, <1>2, <1>3, <1>4, <1>5, <1>6, <1>7, <1>8 DEF DerefNext, MapStep

LEMMA LedgerInit == DerefInit => Ledger
BY DEF DerefInit, Ledger, Unseen

\* The steps that leave lastGen and the pending writes alone, or lose the latter.
LEMMA LedgerKept ==
    ASSUME Ledger, lastGen' = lastGen,
           \A m \in Mappers : mreq'[m] = NoEntry \/ mreq'[m] = mreq[m],
           \A g : Unseen(g) => Unseen(g)'
    PROVE  Ledger'
BY DEF Ledger

LEMMA LedgerStep == DerefShape /\ Ledger /\ [DerefNext]_allvars => Ledger'
<1> SUFFICES ASSUME DerefShape, Ledger, [DerefNext]_allvars PROVE Ledger'
    OBVIOUS
<1> USE DEF DerefShape, DerefTypeOK
<1>1. ASSUME NEW m \in Mappers, MapCheck(m), ~\E n \in Mappers : MapPut(n) PROVE Ledger'
    <2>1. PICK v \in Views, t \in Targets :
              mreq' = [mreq EXCEPT ![m] =
                  [view |-> v,
                   entry |-> [target |-> t, gen |-> lastGen + 1,
                              quarantined |-> FALSE, outcome |-> "none"]]]
        BY <1>1 DEF MapCheck
    <2>2. lastGen \in Nat /\ lastGen' = lastGen + 1 /\ lastGen + 1 \in Gens
        BY <1>1, DerefBoundsAssumption DEF MapCheck, Gens
    <2>3. \A g : Unseen(g) => Unseen(g)' BY <1>1, OtherStepSeen
    <2>4. mreq'[m].entry.gen = lastGen + 1 /\ ~mreq'[m].entry.quarantined
        BY <2>1
    <2>5. \A n \in Mappers \ {m} : mreq'[n] = mreq[n] BY <2>1
    <2>6. \A n \in Mappers \ {m} : mreq[n] # NoEntry =>
              mreq[n].entry.gen \in Nat /\ mreq[n].entry.gen <= lastGen
        BY DEF Ledger, Entries, Gens
    <2>7. Unseen(lastGen + 1) BY <2>2 DEF Ledger
    <2>8. \A g \in Gens : g > lastGen' => Unseen(g)'
        BY <2>2, <2>3 DEF Ledger, Gens
    <2> QED BY <2>2, <2>3, <2>4, <2>5, <2>6, <2>7, <2>8 DEF Ledger
<1>2. ASSUME NEW m \in Mappers, MapPut(m) PROVE Ledger'
    <2> DEFINE r == mreq[m]
    <2>1. r.view \in Views /\ r.entry \in Entries /\ r.entry # NoEntry
        BY <1>2, NoEntryAssumption DEF MapPut
    <2>2. \A k \in Replaced(r.view) : store[r.view] # NoEntry /\ k[2] = store[r.view].gen
        BY DEF Replaced, Key
    <2>3. \A g : Unseen(g) /\ g # r.entry.gen => Unseen(g)'
        BY <1>2, <2>1, <2>2 DEF MapPut, Unseen, readvars
    <2>4. mreq' = [mreq EXCEPT ![m] = NoEntry] /\ lastGen' = lastGen
        BY <1>2 DEF MapPut
    <2>5. r.entry.gen <= lastGen /\ r.entry.gen \in Nat /\ lastGen \in Nat
        BY <1>2, <2>1, DerefBoundsAssumption DEF MapPut, Ledger, Entries, Gens
    <2>6. \A g \in Gens : g > lastGen' => Unseen(g)'
        BY <2>3, <2>4, <2>5 DEF Ledger, Gens
    <2>7. \A n \in Mappers : mreq'[n] # NoEntry =>
              mreq'[n] = mreq[n] /\ mreq[n].entry.gen # r.entry.gen
        BY <1>2, <2>4 DEF MapPut, Ledger
    <2> QED BY <2>3, <2>4, <2>6, <2>7 DEF Ledger
<1>3. CASE ~\E m \in Mappers : MapCheck(m) \/ MapPut(m)
    <2>1. \A g : Unseen(g) => Unseen(g)' BY <1>3, OtherStepSeen
    <2>2. lastGen' = lastGen /\ \A m \in Mappers : mreq'[m] = NoEntry \/ mreq'[m] = mreq[m]
        <3> USE DEF mapvars
        <3>1. ASSUME NEW p \in Procs, ClientStep(p) PROVE <2>2
            BY <3>1 DEF ClientStep, Quiet
        <3>2. ASSUME NEW p \in Readers, DataRead(p) \/ ReaderStep(p) PROVE <2>2
            BY <3>2 DEF DataRead, ReaderStep, Lookup, NoClientFails, ReadFails, UnwrapFails,
                QuarantineFails, ReadStatic, ReadLeased, ReadRenewable, ReadRefused, RevokeOK,
                RevokeFails, RecycleOK, RecycleFails, DiscardClient, Quarantine, UnwrapOK,
                Fail, Answer, Quiet
        <3>3. CASE \E v \in Views : MapDelete(v) BY <3>3 DEF MapDelete
        <3>4. CASE TokenDiesWithLeases BY <3>4 DEF TokenDiesWithLeases
        <3>5. CASE Quiet BY <3>5 DEF Quiet
        <3>6. CASE DerefReset BY <3>6 DEF DerefReset
        <3>7. CASE UNCHANGED allvars BY <3>7 DEF allvars, dvars
        <3> QED BY <1>3, <3>1, <3>2, <3>3, <3>4, <3>5, <3>6, <3>7 DEF DerefNext, MapStep
    <2> QED BY <2>1, <2>2, LedgerKept
<1> QED BY <1>1, <1>2, <1>3

-----------------------------------------------------------------------------
(* The verdict on an entry.  An entry that was answered lease_violation for  *)
(* is quarantined wherever it is stored, and already so when its reader is   *)
(* about to answer; the lookup can then find it unquarantined no more.       *)

Marked(v, g) == store[v] # NoEntry /\ store[v].gen = g => store[v].quarantined

Verdict ==
    /\ \A k \in condemned : Marked(k[1], k[2])
    /\ \A p \in Readers : class[p] = "lease_violation" => Marked(view[p], entry[p].gen)
    /\ \A p \in Readers : warned[p] \subseteq condemned
    /\ FastFailAfterViolation

\* A mark is only lost when a write not seen before takes the entry's place.
LEMMA MarkedStays ==
    ASSUME DerefShape, Ledger, [DerefNext]_allvars,
           NEW v \in Views, NEW g, ~Unseen(g) \/ \A m \in Mappers : ~MapPut(m), Marked(v, g)
    PROVE  Marked(v, g)'
<1> USE DEF DerefShape, DerefTypeOK, Marked
<1>1. ASSUME NEW p \in Procs, ClientStep(p) PROVE Marked(v, g)'
    BY <1>1 DEF ClientStep, Quiet, mapvars
<1>2. ASSUME NEW p \in Readers, DataRead(p) \/ ReaderStep(p) PROVE Marked(v, g)'
    <2>1. CASE Quarantine(p)
        <3>1. entry[p] \in Entries BY <2>1 DEF Quarantine, ReaderShape
        <3>2. [entry[p] EXCEPT !.quarantined = TRUE, !.outcome = outcome[p]].quarantined
            BY <3>1 DEF Entries
        <3> QED BY <2>1, <3>2 DEF Quarantine
    <2>2. CASE ~Quarantine(p)
        BY <1>2, <2>2 DEF DataRead, ReaderStep, Lookup, NoClientFails, ReadFails, UnwrapFails,
                QuarantineFails, ReadStatic, ReadLeased, ReadRenewable, ReadRefused, RevokeOK,
                RevokeFails, RecycleOK, RecycleFails, DiscardClient, UnwrapOK,
                Fail, Answer, Quiet, mapvars
    <2> QED BY <2>1, <2>2
<1>3. ASSUME NEW m \in Mappers, MapCheck(m) \/ MapPut(m) PROVE Marked(v, g)'
    <2>1. CASE UNCHANGED store
        BY <2>1
    <2>2. CASE MapPut(m) /\ store' = [store EXCEPT ![mreq[m].view] = mreq[m].entry]
        <3>1. mreq[m] # NoEntry BY <2>2 DEF MapPut
        <3>2. Unseen(mreq[m].entry.gen) BY <3>1 DEF Ledger
        <3>3. mreq[m].entry.gen # g BY <2>2, <3>2
        <3>4. store'[v] = store[v] \/ store'[v] = mreq[m].entry BY <2>2
        <3> QED BY <3>3, <3>4
    <2> QED BY <1>3, <2>1, <2>2 DEF MapCheck, MapPut
<1>4. CASE \E w \in Views : MapDelete(w) BY <1>4 DEF MapDelete
<1>5. CASE TokenDiesWithLeases BY <1>5 DEF TokenDiesWithLeases, mapvars
<1>6. CASE Quiet BY <1>6 DEF Quiet, mapvars
<1>7. CASE DerefReset BY <1>7 DEF DerefReset
<1>8. CASE UNCHANGED allvars BY <1>8 DEF allvars, dvars, mapvars
<1> QED BY <1>1, <1>2, <1>3, <1>4, <1>5, <1>6, <1>7, <1>8 DEF DerefNext, MapStep

LEMMA VerdictInit == DerefInit => Verdict
BY DEF DerefInit, Verdict, FastFailAfterViolation

\* What a step has to show for the verdicts to survive it.
LEMMA VerdictKept ==
    ASSUME DerefShape, Ledger, [DerefNext]_allvars, Verdict,
           \A k \in condemned' :
               \/ k \in condemned
               \/ \E p \in Readers : class[p] = "lease_violation" /\ k = Key(view[p], entry[p]),
           \A p \in Readers : class'[p] = "lease_violation" =>
               \/ class[p] = "lease_violation" /\ view'[p] = view[p] /\ entry'[p] = entry[p]
               \/ Marked(view[p], entry[p].gen)',
           \A p \in Readers : warned'[p] \subseteq condemned',
           FastFailAfterViolation'
    PROVE  Verdict'
<1> USE DEF DerefShape, DerefTypeOK, Verdict
<1>1. \A p \in Readers : class[p] = "lease_violation" => Marked(view[p], entry[p].gen)
    OBVIOUS
<1>2. ASSUME NEW p \in Readers, class[p] = "lease_violation",
             NEW v, NEW g, v = view[p], g = entry[p].gen
      PROVE  Marked(v, g)'
    <2>1. entry[p] # NoEntry BY <1>2 DEF ReaderShape
    <2>2. v \in Views /\ ~Unseen(g) BY <1>2, <2>1 DEF Unseen
    <2>3. Marked(v, g) BY <1>1, <1>2
    <2> QED BY <2>2, <2>3, MarkedStays
<1>3. \A k \in condemned' : Marked(k[1], k[2])'
    <2> SUFFICES ASSUME NEW k \in condemned' PROVE Marked(k[1], k[2])'
        OBVIOUS
    <2>1. CASE k \in condemned
        <3>1. k[1] \in Views /\ ~Unseen(k[2]) BY <2>1 DEF Unseen
        <3> QED BY <2>1, <3>1, MarkedStays
    <2>2. CASE \E p \in Readers : class[p] = "lease_violation" /\ k = Key(view[p], entry[p])
        <3>1. PICK p \in Readers : class[p] = "lease_violation" /\ k = Key(view[p], entry[p])
            BY <2>2
        <3>2. k[1] = view[p] /\ k[2] = entry[p].gen BY <3>1 DEF Key
        <3> QED BY <1>2, <3>1, <3>2
    <2> QED BY <2>1, <2>2
<1>4. \A p \in Readers : class'[p] = "lease_violation" => Marked(view[p], entry[p].gen)'
    <2> SUFFICES ASSUME NEW p \in Readers, class'[p] = "lease_violation"
                 PROVE  Marked(view[p], entry[p].gen)'
        OBVIOUS
    <2>1. CASE class[p] = "lease_violation" /\ view'[p] = view[p] /\ entry'[p] = entry[p]
        BY <1>2, <2>1
    <2> QED BY <2>1
<1> QED BY <1>3, <1>4

LEMMA VerdictStep ==
    ASSUME ~PutMayFail, DerefShape, Ledger, Verdict, [DerefNext]_allvars
    PROVE  Verdict'
<1> USE DEF DerefShape, DerefTypeOK, Verdict, FastFailAfterViolation
<1>1. ASSUME NEW p \in Readers, DataRead(p) PROVE Verdict'
    BY <1>1, VerdictKept DEF DataRead, ReaderShape
<1>2. ASSUME NEW p \in Readers, Lookup(p) PROVE Verdict'
    <2> DEFINE e == store[view[p]]
    <2>1. CASE Answer(p) BY <1>2, <2>1, VerdictKept DEF Answer, Lookup
    <2>2. CASE ~Answer(p)
        <3>1. e # NoEntry /\ ~e.quarantined /\ entry' = [entry EXCEPT ![p] = e]
            BY <1>2, <2>2 DEF Lookup
        <3>2. UNCHANGED <<view, class, warned, condemned>>
            BY <1>2, <2>2 DEF Lookup
        <3>3. Key(view[p], e) \notin condemned
            BY <3>1 DEF Marked, Key
        <3>4. FastFailAfterViolation' BY <3>1, <3>2, <3>3
        <3>5. class[p] # "lease_violation" BY <1>2 DEF ReaderShape, Lookup
        <3> QED BY <3>1, <3>2, <3>4, <3>5, VerdictKept
    <2> QED BY <2>1, <2>2
<1>3. ASSUME NEW p \in Readers,
             NoClientFails(p) \/ ReadFails(p) \/ UnwrapFails(p) \/ QuarantineFails(p)
      PROVE  Verdict'
    BY <1>3, VerdictKept
       DEF NoClientFails, ReadFails, UnwrapFails, QuarantineFails, FailWith
<1>4. ASSUME NEW p \in Readers,
             ReadStatic(p) \/ ReadLeased(p) \/ ReadRenewable(p) \/ ReadRefused(p)
                \/ RecycleOK(p) \/ RecycleFails(p)
      PROVE  Verdict'
    BY <1>4, VerdictKept
       DEF ReadStatic, ReadLeased, ReadRenewable, ReadRefused, RecycleOK, RecycleFails,
           Quiet, readvars
<1>5. ASSUME NEW p \in Readers, RevokeOK(p) \/ RevokeFails(p) \/ DiscardClient(p)
      PROVE  Verdict'
    BY <1>5, VerdictKept DEF RevokeOK, RevokeFails, DiscardClient
<1>6. ASSUME NEW p \in Readers, Quarantine(p) PROVE Verdict'
    <2>1. entry[p] \in Entries BY <1>6 DEF Quarantine, ReaderShape
    <2>2. [entry[p] EXCEPT !.quarantined = TRUE, !.outcome = outcome[p]].quarantined
        BY <2>1 DEF Entries
    <2>3. store'[view[p]].quarantined /\ UNCHANGED <<view, entry, warned, condemned>>
        BY <1>6, <2>2 DEF Quarantine, FailWith
    <2>4. Marked(view[p], entry[p].gen)' BY <2>3 DEF Marked
    <2>5. class' = [class EXCEPT ![p] = "lease_violation"]
        BY <1>6 DEF Quarantine, FailWith
    <2> QED BY <2>3, <2>4, <2>5, VerdictKept
<1>7. ASSUME NEW p \in Readers, UnwrapOK(p) PROVE Verdict'
    BY <1>7, VerdictKept DEF UnwrapOK, Answer
<1>8. ASSUME NEW p \in Readers, Fail(p) PROVE Verdict'
    BY <1>8, VerdictKept DEF Fail, Answer
<1>9. CASE DerefReset
    BY <1>9, VerdictKept DEF DerefReset
<1>10. CASE UNCHANGED <<readvars, condemned>>
    BY <1>10, VerdictKept DEF readvars
<1>11. (\E p \in Procs : ClientStep(p)) \/ MapStep \/ TokenDiesWithLeases \/ Quiet
          \/ UNCHANGED allvars
       => UNCHANGED <<readvars, condemned>>
    BY DEF ClientStep, MapStep, MapCheck, MapPut, MapDelete, TokenDiesWithLeases, Quiet,
           allvars, dvars
<1> QED BY <1>1, <1>2, <1>3, <1>4, <1>5, <1>6, <1>7, <1>8, <1>9, <1>10, <1>11
        DEF DerefNext, ReaderStep

\* As long as storage takes the quarantine write, a view answered with the
\* static-contract violation is not dereferenced again with that mapping entry:
\* for any number of readers, writers, views, restarts and rewrites.
THEOREM FastFailHolds ==
    ASSUME ~PutMayFail
    PROVE  DerefSpec => []FastFailAfterViolation
<1>1. DerefInit => DerefShape /\ Ledger /\ Verdict
    BY DerefShapeInit, LedgerInit, VerdictInit
<1>2. DerefShape /\ Ledger /\ Verdict /\ [DerefNext]_allvars
          => DerefShape' /\ Ledger' /\ Verdict'
    BY DerefShapeStep, LedgerStep, VerdictStep
<1>3. Verdict => FastFailAfterViolation BY DEF Verdict
<1> QED BY <1>1, <1>2, <1>3, PTL DEF DerefSpec

-----------------------------------------------------------------------------
(* Who clears a quarantine.  Only MapPut stores an unmarked entry, and the   *)
(* write it stores was not seen anywhere before.                             *)

OnlyRewriteClearsStep ==
    \A v \in Views :
        store'[v] # store[v] /\ store'[v] # NoEntry =>
            store'[v].quarantined \/ <<v, store'[v].gen>> \notin retired \cup Replaced(v)

LEMMA OnlyRewriteStores ==
    ASSUME DerefShape, Ledger, [DerefNext]_allvars
    PROVE  OnlyRewriteClearsStep
<1> USE DEF DerefShape, DerefTypeOK, OnlyRewriteClearsStep
<1>1. ASSUME NEW m \in Mappers, MapPut(m) PROVE OnlyRewriteClearsStep
    <2> DEFINE r == mreq[m]
    <2>1. r # NoEntry /\ r.view \in Views /\ Unseen(r.entry.gen)
        BY <1>1 DEF MapPut, Ledger
    <2>2. \A k \in retired : k[2] # r.entry.gen BY <2>1 DEF Unseen
    <2>3. \A v \in Views : \A k \in Replaced(v) : k[2] # r.entry.gen
        BY <2>1 DEF Unseen, Replaced, Key
    <2>4. \A v \in Views : store'[v] = store[v] \/ store'[v] = r.entry
        BY <1>1 DEF MapPut
    <2> QED BY <2>2, <2>3, <2>4
<1>2. ASSUME NEW p \in Readers, Quarantine(p) PROVE OnlyRewriteClearsStep
    <2>1. entry[p] \in Entries BY <1>2 DEF Quarantine, ReaderShape
    <2>2. [entry[p] EXCEPT !.quarantined = TRUE, !.outcome = outcome[p]].quarantined
        BY <2>1 DEF Entries
    <2> QED BY <1>2, <2>2 DEF Quarantine
<1>3. ASSUME NEW w \in Views, MapDelete(w) PROVE OnlyRewriteClearsStep
    BY <1>3 DEF MapDelete
<1>4. CASE UNCHANGED store BY <1>4
<1>5. (\E p \in Procs : ClientStep(p)) \/ TokenDiesWithLeases \/ Quiet \/ DerefReset
          \/ UNCHANGED allvars \/ (\E m \in Mappers : MapCheck(m))
       => UNCHANGED store
    BY DEF ClientStep, TokenDiesWithLeases, Quiet, DerefReset, allvars, dvars, mapvars, MapCheck
<1>6. ASSUME NEW p \in Readers, DataRead(p) \/ ReaderStep(p), ~Quarantine(p)
      PROVE  UNCHANGED store
    BY <1>6 DEF DataRead, ReaderStep, Lookup, NoClientFails, ReadFails, UnwrapFails,
            QuarantineFails, ReadStatic, ReadLeased, ReadRenewable, ReadRefused, RevokeOK,
            RevokeFails, RecycleOK, RecycleFails, DiscardClient, UnwrapOK,
            Fail, Answer, Quiet, mapvars
<1> QED BY <1>1, <1>2, <1>3, <1>4, <1>5, <1>6 DEF DerefNext, MapStep

\* Whatever races with it and whatever fails, only the Put of a new admin/map
\* write leaves a mapping without its quarantine mark.
THEOREM RewritesAloneClear == DerefSpec => OnlyRewriteClears
<1>1. DerefInit => DerefShape /\ Ledger BY DerefShapeInit, LedgerInit
<1>2. DerefShape /\ Ledger /\ [DerefNext]_allvars => DerefShape' /\ Ledger'
    BY DerefShapeStep, LedgerStep
<1>3. DerefShape /\ Ledger /\ [DerefNext]_allvars => [OnlyRewriteClearsStep]_allvars
    BY OnlyRewriteStores
<1> QED BY <1>1, <1>2, <1>3, PTL DEF DerefSpec, OnlyRewriteClears, OnlyRewriteClearsStep

-----------------------------------------------------------------------------
(* The allowlist.  Every entry there is, stored, in an admin/map write or in *)
(* a reader's hands, was checked once, and a quarantine keeps the target.    *)

Permitted(e) == TargetMountAllowed(stored, e.target.mount)

AllPermitted ==
    /\ config = stored
    /\ \A v \in Views : store[v] # NoEntry => Permitted(store[v])
    /\ \A m \in Mappers : mreq[m] # NoEntry => Permitted(mreq[m].entry)
    /\ \A p \in Readers : entry[p] # NoEntry => Permitted(entry[p])

LEMMA ConfigKept ==
    ASSUME Admins = {}, ~LoadMayFail, AllPermitted, [DerefNext]_allvars
    PROVE  stored' = stored /\ config' = stored
<1> USE DEF AllPermitted
<1>1. ASSUME NEW p \in Procs, ClientStep(p) PROVE UNCHANGED <<stored, config>>
    BY <1>1 DEF ClientStep, TickStart, Ensure, Renew, shared, cvars,
        EnsureLook, EnsureGate, EnsureLoginOK, EnsureLoginFails, EnsureRecord, EnsureInstall,
        GiveUp, Discard, RenewLook, RenewOK, RenewRefused, RenewFails, RenewStore
<1>2. ASSUME NEW p \in Readers, DataRead(p) \/ ReaderStep(p) PROVE UNCHANGED <<stored, config>>
    BY <1>2 DEF DataRead, ReaderStep, Lookup, NoClientFails, ReadFails, UnwrapFails,
            QuarantineFails, ReadStatic, ReadLeased, ReadRenewable, ReadRefused, RevokeOK,
            RevokeFails, RecycleOK, RecycleFails, DiscardClient, Quarantine, UnwrapOK,
            Fail, FailWith, Answer, shared, cvars
<1>3. CASE MapStep /\ UNCHANGED vars BY <1>3 DEF vars
<1>4. CASE TokenDiesWithLeases BY <1>4 DEF TokenDiesWithLeases, TokenDies, cvars
<1>5. CASE BackoffElapses BY <1>5 DEF BackoffElapses, cvars
<1>6. CASE ConfigWrite BY <1>6 DEF ConfigWrite
<1>7. CASE ConfigRestart BY <1>7 DEF ConfigRestart
<1>8. CASE UNCHANGED allvars BY <1>8 DEF allvars, vars
<1> QED BY <1>1, <1>2, <1>3, <1>4, <1>5, <1>6, <1>7, <1>8 DEF DerefNext

LEMMA AllPermittedStep ==
    ASSUME Admins = {}, ~LoadMayFail, DerefShape, AllPermitted, [DerefNext]_allvars
    PROVE  AllPermitted'
<1> USE DEF DerefShape, DerefTypeOK, AllPermitted
<1>1. stored' = stored /\ config' = stored BY ConfigKept
<1>2. \A e : Permitted(e)' <=> Permitted(e) BY <1>1 DEF Permitted
<1>3. ASSUME NEW p \in Readers, Lookup(p) PROVE AllPermitted'
    BY <1>1, <1>2, <1>3 DEF Lookup, Answer, mapvars, Permitted
<1>4. ASSUME NEW p \in Readers, Quarantine(p) PROVE AllPermitted'
    <2>1. entry[p] \in Entries BY <1>4 DEF Quarantine, ReaderShape
    <2> DEFINE e == [entry[p] EXCEPT !.quarantined = TRUE, !.outcome = outcome[p]]
    <2>2. e.target = entry[p].target BY <2>1 DEF Entries
    <2>3. Permitted(e) BY <2>1, <2>2, NoEntryAssumption DEF Permitted
    <2>4. store' = [store EXCEPT ![view[p]] = e] /\ UNCHANGED <<mreq, entry>>
        BY <1>4 DEF Quarantine, FailWith
    <2> QED BY <1>1, <2>3, <2>4 DEF Permitted
<1>5. ASSUME NEW m \in Mappers, MapCheck(m) PROVE AllPermitted'
    <2>1. PICK v \in Views, t \in Targets :
              /\ TargetMountAllowed(config, t.mount)
              /\ mreq' = [mreq EXCEPT ![m] =
                     [view |-> v,
                      entry |-> [target |-> t, gen |-> lastGen + 1,
                                 quarantined |-> FALSE, outcome |-> "none"]]]
        BY <1>5 DEF MapCheck
    <2>2. mreq'[m].entry.target = t BY <2>1
    <2>3. UNCHANGED <<store, entry>> BY <1>5 DEF MapCheck, readvars
    <2> QED BY <1>1, <2>1, <2>2, <2>3 DEF Permitted
<1>6. ASSUME NEW m \in Mappers, MapPut(m) PROVE AllPermitted'
    BY <1>1, <1>6 DEF MapPut, readvars, Permitted
<1>7. ASSUME NEW v \in Views, MapDelete(v) PROVE AllPermitted'
    BY <1>1, <1>7 DEF MapDelete, readvars, Permitted
<1>8. CASE /\ store' = store /\ \A m \in Mappers : mreq'[m] \in {mreq[m], NoEntry}
           /\ \A p \in Readers : entry'[p] \in {entry[p], NoEntry}
    BY <1>1, <1>8 DEF Permitted
<1>9. ASSUME NEW p \in Readers, DataRead(p) \/ ReaderStep(p), ~Lookup(p), ~Quarantine(p)
      PROVE  <1>8!1
    BY <1>9 DEF DataRead, ReaderStep, NoClientFails, ReadFails, UnwrapFails,
            QuarantineFails, ReadStatic, ReadLeased, ReadRenewable, ReadRefused, RevokeOK,
            RevokeFails, RecycleOK, RecycleFails, DiscardClient, UnwrapOK,
            Fail, FailWith, Answer, Quiet, mapvars, readvars
<1>10. (\E p \in Procs : ClientStep(p)) \/ TokenDiesWithLeases \/ Quiet \/ DerefReset
           \/ UNCHANGED allvars
        => <1>8!1
    BY DEF ClientStep, TokenDiesWithLeases, Quiet, DerefReset, allvars, dvars, mapvars, readvars
<1> QED BY <1>3, <1>4, <1>5, <1>6, <1>7, <1>8, <1>9, <1>10 DEF DerefNext, MapStep

\* While the configuration is not replaced, and as long as it can be read at
\* mount time, no mapping outside its allowlist is ever stored, written back by
\* a quarantine included.
THEOREM AllowlistHolds ==
    ASSUME Admins = {}, ~LoadMayFail
    PROVE  DerefSpec => []AllowlistEnforced
<1>1. DerefInit => DerefShape /\ AllPermitted
    BY DerefShapeInit DEF DerefInit, LoopbackInit, ConfigInit, AllPermitted
<1>2. DerefShape /\ AllPermitted /\ [DerefNext]_allvars => DerefShape' /\ AllPermitted'
    BY DerefShapeStep, AllPermittedStep
<1>3. AllPermitted => AllowlistEnforced BY DEF AllPermitted, Permitted, AllowlistEnforced
<1> QED BY <1>1, <1>2, <1>3, PTL DEF DerefSpec

-----------------------------------------------------------------------------
(* The counters.  A reader that has counted a failed revocation is on its    *)
(* way to count the violation, and to nothing else.                          *)

Recycling ==
    \A p \in Readers :
        /\ class[p] # "revocation_failure"
        /\ outcome[p] = "token recycled" =>
               pc[p] \in {"recycle", "discard", "quarantine"}
                   \/ (pc[p] = "fail" /\ class[p] = "lease_violation")

LEMMA RecyclingStep ==
    ASSUME DerefShape, Recycling, [DerefNext]_allvars
    PROVE  Recycling'
<1> USE DEF DerefShape, DerefTypeOK, ReaderShape, Recycling, Procs
<1>1. ASSUME NEW p \in Procs, ClientStep(p) PROVE Recycling'
    <2>1. UNCHANGED <<outcome, class>> BY <1>1 DEF ClientStep, Quiet, readvars
    <2> QED BY <1>1, <2>1, ClientStepMoves DEF EnsurePCs
<1>2. ASSUME NEW p \in Readers, DataRead(p) \/ ReaderStep(p) PROVE Recycling'
    <2> USE DEF Goto, Hold, Release, FailWith, Answer, Quiet, readvars
    <2>1. CASE DataRead(p) \/ Lookup(p) BY <2>1 DEF DataRead, Lookup
    <2>2. CASE NoClientFails(p) \/ ReadFails(p) \/ UnwrapFails(p)
        BY <2>2 DEF NoClientFails, ReadFails, UnwrapFails
    <2>3. CASE ReadStatic(p) \/ ReadLeased(p) \/ ReadRenewable(p) \/ ReadRefused(p)
        BY <2>3 DEF ReadStatic, ReadLeased, ReadRenewable, ReadRefused
    <2>4. CASE RevokeOK(p) \/ RevokeFails(p) \/ RecycleOK(p) \/ RecycleFails(p)
        BY <2>4 DEF RevokeOK, RevokeFails, RecycleOK, RecycleFails
    <2>5. CASE DiscardClient(p) BY <2>5 DEF DiscardClient
    <2>6. CASE Quarantine(p) \/ QuarantineFails(p) BY <2>6 DEF Quarantine, QuarantineFails
    <2>7. CASE UnwrapOK(p) \/ Fail(p) BY <2>7 DEF UnwrapOK, Fail
    <2> QED BY <1>2, <2>1, <2>2, <2>3, <2>4, <2>5, <2>6, <2>7 DEF ReaderStep
<1>3. CASE DerefReset BY <1>3 DEF DerefReset
<1>4. CASE UNCHANGED <<pc, outcome, class>> BY <1>4
<1>5. (MapStep /\ UNCHANGED vars) \/ TokenDiesWithLeases \/ (BackoffElapses /\ Quiet)
          \/ (UNCHANGED lvars /\ Quiet) \/ UNCHANGED allvars
       => UNCHANGED <<pc, outcome, class>>
    BY DEF MapStep, MapCheck, MapPut, MapDelete, TokenDiesWithLeases, TokenDies,
           BackoffElapses, Quiet, allvars, dvars, vars, lvars, readvars
<1> QED BY <1>1, <1>2, <1>3, <1>4, <1>5 DEF DerefNext

\* What counting a failure does to a counter.
LEMMA CountRises ==
    ASSUME DerefShape, NEW m \in Mounts, NEW c \in Classes \cup {"none"}, RecordFailure(m, c),
           NEW n \in Mounts, NEW d \in Classes
    PROVE  /\ failureCounters[n][d] > 0 => failureCounters'[n][d] > 0
           /\ (n # m \/ d # c) => failureCounters'[n][d] = failureCounters[n][d]
           /\ c \in Classes /\ MaxCount > 0 => failureCounters'[m][c] > 0
<1>1. /\ failureCounters \in [Mounts -> [Classes -> 0..MaxCount]] /\ MaxCount \in Nat
      /\ failureCounters' = [failureCounters EXCEPT ![m][c] =
                                 IF @ < MaxCount THEN @ + 1 ELSE @]
    BY DerefBoundsAssumption DEF DerefShape, DerefTypeOK, RecordFailure
<1>2. failureCounters'[n][d] = IF n = m /\ d = c /\ failureCounters[n][d] < MaxCount
                               THEN failureCounters[n][d] + 1 ELSE failureCounters[n][d]
    BY <1>1
<1>3. c \in Classes =>
          failureCounters'[m][c] = IF failureCounters[m][c] < MaxCount
                                   THEN failureCounters[m][c] + 1 ELSE failureCounters[m][c]
    BY <1>1
<1>4. failureCounters[n][d] \in 0..MaxCount /\ (c \in Classes => failureCounters[m][c] \in 0..MaxCount)
    BY <1>1
<1> QED BY <1>1, <1>2, <1>3, <1>4

\* A step that counts no failed revocation, keeps the counted violations and
\* leaves every reader that is on its way to count one where it is.
StillExplained ==
    /\ \A m \in Mounts : /\ failureCounters'[m]["revocation_failure"]
                                = failureCounters[m]["revocation_failure"]
                         /\ failureCounters[m]["lease_violation"] > 0 =>
                                failureCounters'[m]["lease_violation"] > 0
    /\ \A p \in Readers : outcome[p] = "token recycled" =>
           outcome'[p] = "token recycled" /\ entry'[p] = entry[p]

LEMMA StillExplainedSuffices ==
    ASSUME RevocationFailuresExplained, StillExplained
    PROVE  RevocationFailuresExplained'
<1>1. ASSUME NEW n \in Mounts, failureCounters'[n]["revocation_failure"] > 0
      PROVE  \/ failureCounters'[n]["lease_violation"] > 0
             \/ \E q \in Readers : outcome'[q] = "token recycled" /\ entry'[q].target.mount = n
    <2>1. failureCounters[n]["revocation_failure"] > 0 BY <1>1 DEF StillExplained
    <2>2. CASE failureCounters[n]["lease_violation"] > 0 BY <2>2 DEF StillExplained
    <2>3. ASSUME NEW q \in Readers, outcome[q] = "token recycled", entry[q].target.mount = n
          PROVE  outcome'[q] = "token recycled" /\ entry'[q].target.mount = n
        BY <2>3 DEF StillExplained
    <2> QED BY <2>1, <2>2, <2>3 DEF RevocationFailuresExplained
<1> QED BY <1>1 DEF RevocationFailuresExplained

\* A reader that is not on its way may answer or drop its entry.
LEMMA OthersStay ==
    ASSUME DerefShape, NEW p \in Readers, outcome[p] # "token recycled",
           \A q \in Readers \ {p} : outcome'[q] = outcome[q] /\ entry'[q] = entry[q],
           UNCHANGED failureCounters
    PROVE  StillExplained
BY DEF StillExplained

LEMMA RevokeFailsExplained ==
    ASSUME DerefShape, RevocationFailuresExplained, NEW p \in Readers, RevokeFails(p)
    PROVE  RevocationFailuresExplained'
<1> DEFINE m == entry[p].target.mount
<1>1. pc[p] = "revoke" /\ outcome' = [outcome EXCEPT ![p] = "token recycled"] /\ entry' = entry
      /\ RecordFailure(m, "revocation_failure")
    BY DEF RevokeFails
<1>2. entry[p] \in Entries BY <1>1 DEF DerefShape, DerefTypeOK, ReaderShape
<1>3. m \in Mounts BY <1>2 DEF Entries, Mounts
<1>4. outcome \in [Readers -> Outcomes] BY DEF DerefShape, DerefTypeOK
<1>5. "revocation_failure" \in Classes /\ "lease_violation" \in Classes BY DEF Classes
<1>6. ASSUME NEW n \in Mounts, failureCounters'[n]["revocation_failure"] > 0
      PROVE  \/ failureCounters'[n]["lease_violation"] > 0
             \/ \E q \in Readers : outcome'[q] = "token recycled" /\ entry'[q].target.mount = n
    <2>1. CASE n = m BY <1>1, <1>4, <2>1
    <2>2. CASE n # m
        <3>0. failureCounters'[n]["revocation_failure"] = failureCounters[n]["revocation_failure"]
            BY <1>1, <1>3, <1>5, <2>2, CountRises
        <3>1. failureCounters[n]["revocation_failure"] > 0 BY <1>6, <3>0
        <3>2. CASE failureCounters[n]["lease_violation"] > 0
            BY <1>1, <1>3, <1>5, <3>2, CountRises
        <3>3. ASSUME NEW q \in Readers, outcome[q] = "token recycled", entry[q].target.mount = n
              PROVE  outcome'[q] = "token recycled" /\ entry'[q].target.mount = n
            BY <1>1, <1>4, <3>3
        <3> QED BY <3>1, <3>2, <3>3 DEF RevocationFailuresExplained
    <2> QED BY <2>1, <2>2
<1> QED BY <1>6 DEF RevocationFailuresExplained

LEMMA FailExplained ==
    ASSUME DerefShape, Recycling, RevocationFailuresExplained, NEW p \in Readers, Fail(p)
    PROVE  RevocationFailuresExplained'
<1> DEFINE m == entry[p].target.mount
<1>1. /\ pc[p] = "fail" /\ RecordFailure(m, class[p])
      /\ entry' = [entry EXCEPT ![p] = NoEntry] /\ outcome' = [outcome EXCEPT ![p] = "none"]
    BY DEF Fail, Answer
<1>2. entry[p] \in Entries /\ class[p] \in Classes \cup {"none"} /\ class[p] # "revocation_failure"
    BY <1>1 DEF DerefShape, DerefTypeOK, ReaderShape, Recycling
<1>3. m \in Mounts BY <1>2 DEF Entries, Mounts
<1>4. outcome \in [Readers -> Outcomes] /\ entry \in [Readers -> Entries \cup {NoEntry}]
    BY DEF DerefShape, DerefTypeOK
<1>5. "revocation_failure" \in Classes /\ "lease_violation" \in Classes BY DEF Classes
<1>6. ASSUME NEW n \in Mounts, failureCounters'[n]["revocation_failure"] > 0
      PROVE  \/ failureCounters'[n]["lease_violation"] > 0
             \/ \E q \in Readers : outcome'[q] = "token recycled" /\ entry'[q].target.mount = n
    <2>1. failureCounters'[n]["revocation_failure"] = failureCounters[n]["revocation_failure"]
        BY <1>1, <1>2, <1>3, <1>5, CountRises
    <2>2. failureCounters[n]["revocation_failure"] > 0 BY <1>6, <2>1
    <2>3. CASE failureCounters[n]["lease_violation"] > 0
        BY <1>1, <1>2, <1>3, <1>5, <2>3, CountRises
    <2>4. ASSUME NEW q \in Readers, outcome[q] = "token recycled", entry[q].target.mount = n,
                 q # p
          PROVE  outcome'[q] = "token recycled" /\ entry'[q].target.mount = n
        BY <1>1, <1>4, <2>4
    <2>5. ASSUME outcome[p] = "token recycled", entry[p].target.mount = n
          PROVE  failureCounters'[n]["lease_violation"] > 0
        <3>1. class[p] = "lease_violation" BY <1>1, <2>5 DEF Recycling
        <3>2. failureCounters[n]["revocation_failure"] \in 0..MaxCount
            BY <1>5 DEF DerefShape, DerefTypeOK
        <3>3. MaxCount > 0 BY <2>2, <3>2, DerefBoundsAssumption
        <3> QED BY <1>1, <1>2, <1>3, <1>5, <2>5, <3>1, <3>3, CountRises
    <2> QED BY <2>2, <2>3, <2>4, <2>5 DEF RevocationFailuresExplained
<1> QED BY <1>6 DEF RevocationFailuresExplained

LEMMA LookupExplained ==
    ASSUME DerefShape, Recycling, NEW p \in Readers, Lookup(p)
    PROVE  StillExplained
<1> DEFINE e == store[view[p]]
<1>1. outcome[p] # "token recycled" BY DEF Lookup, Recycling
<1>2. /\ outcome \in [Readers -> Outcomes] /\ entry \in [Readers -> Entries \cup {NoEntry}]
      /\ view[p] \in Views /\ e \in Entries \cup {NoEntry}
    BY DEF DerefShape, DerefTypeOK
<1>3. \A q \in Readers \ {p} : outcome'[q] = outcome[q] /\ entry'[q] = entry[q]
    BY <1>2 DEF Lookup, Answer
<1>4. CASE UNCHANGED failureCounters BY <1>1, <1>3, <1>4, OthersStay
<1>5. CASE e # NoEntry /\ RecordFailure(e.target.mount, "quarantined_fastfail")
    <2>1. e.target.mount \in Mounts BY <1>2, <1>5 DEF Entries, Mounts
    <2>2. /\ "quarantined_fastfail" \in Classes /\ "revocation_failure" \in Classes
          /\ "lease_violation" \in Classes
        BY DEF Classes
    <2>3. \A n \in Mounts : /\ failureCounters'[n]["revocation_failure"]
                                   = failureCounters[n]["revocation_failure"]
                            /\ failureCounters[n]["lease_violation"] > 0 =>
                                   failureCounters'[n]["lease_violation"] > 0
        BY <1>5, <2>1, <2>2, CountRises
    <2> QED BY <1>1, <1>3, <2>3 DEF StillExplained
<1> QED BY <1>4, <1>5 DEF Lookup

LEMMA ExplainedStep ==
    ASSUME DerefShape, Recycling, RevocationFailuresExplained, [DerefNext]_allvars
    PROVE  RevocationFailuresExplained'
<1>1. CASE UNCHANGED <<outcome, entry, failureCounters>> BY <1>1, StillExplainedSuffices DEF StillExplained
<1>2. ASSUME NEW p \in Readers, DataRead(p) \/ ReaderStep(p) PROVE RevocationFailuresExplained'
    <2>1. CASE Lookup(p) BY <2>1, LookupExplained, StillExplainedSuffices
    <2>2. CASE RevokeFails(p) BY <2>2, RevokeFailsExplained
    <2>3. CASE Fail(p) BY <2>3, FailExplained
    <2>4. CASE RevokeOK(p) \/ UnwrapOK(p)
        <3>1. outcome[p] # "token recycled" BY <2>4 DEF RevokeOK, UnwrapOK, Recycling
        <3>2. outcome \in [Readers -> Outcomes] /\ entry \in [Readers -> Entries \cup {NoEntry}]
            BY DEF DerefShape, DerefTypeOK
        <3>3. \A q \in Readers \ {p} : outcome'[q] = outcome[q] /\ entry'[q] = entry[q]
            BY <2>4, <3>2 DEF RevokeOK, UnwrapOK, Answer
        <3>4. UNCHANGED failureCounters BY <2>4 DEF RevokeOK, UnwrapOK
        <3> QED BY <3>1, <3>3, <3>4, OthersStay, StillExplainedSuffices
    <2>5. CASE DataRead(p) \/ NoClientFails(p) \/ ReadFails(p) \/ UnwrapFails(p)
                  \/ QuarantineFails(p) \/ Quarantine(p)
        BY <1>1, <2>5 DEF DataRead, NoClientFails, ReadFails, UnwrapFails, QuarantineFails,
                          Quarantine, FailWith
    <2>6. CASE ReadStatic(p) \/ ReadLeased(p) \/ ReadRenewable(p) \/ ReadRefused(p)
                  \/ RecycleOK(p) \/ RecycleFails(p) \/ DiscardClient(p)
        BY <1>1, <2>6 DEF ReadStatic, ReadLeased, ReadRenewable, ReadRefused, RecycleOK,
                          RecycleFails, DiscardClient, Quiet, readvars
    <2> QED BY <1>2, <2>1, <2>2, <2>3, <2>4, <2>5, <2>6 DEF ReaderStep
<1>3. CASE DerefReset BY <1>3 DEF DerefReset, RevocationFailuresExplained, Classes
<1>4. (\E p \in Procs : ClientStep(p)) \/ MapStep \/ TokenDiesWithLeases \/ Quiet
          \/ UNCHANGED allvars
       => UNCHANGED <<outcome, entry, failureCounters>>
    BY DEF ClientStep, MapStep, MapCheck, MapPut, MapDelete, TokenDiesWithLeases, Quiet,
           allvars, dvars, readvars
<1> QED BY <1>1, <1>2, <1>3, <1>4 DEF DerefNext

\* The counters of a mount never show a failed revocation that no violation
\* explains, whatever other requests, rewrites and failures come between the two
\* counts of a read.
THEOREM RevocationsExplained == DerefSpec => []RevocationFailuresExplained
<1>1. DerefInit => DerefShape /\ Recycling /\ RevocationFailuresExplained
    BY DerefShapeInit DEF DerefInit, Recycling, RevocationFailuresExplained, Classes
<1>2. DerefShape /\ Recycling /\ RevocationFailuresExplained /\ [DerefNext]_allvars
          => DerefShape' /\ Recycling' /\ RevocationFailuresExplained'
    BY DerefShapeStep, RecyclingStep, ExplainedStep
<1> QED BY <1>1, <1>2, PTL DEF DerefSpec
=============================================================================
