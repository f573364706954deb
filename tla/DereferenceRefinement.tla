------------------------ MODULE DereferenceRefinement ------------------------
(* Dereference implements Loopback: seen through AsLoopback, every step of a *)
(* read, of a mapping write and of the engine around them is a step of the   *)
(* loopback client's specification, or none.                                 *)
EXTENDS DereferenceProofs

Seen == [p \in Procs |-> SeenAs(pc[p])]

-----------------------------------------------------------------------------
(* A reader that has no use for the client holds none, so that the steps     *)
(* which end its request, or begin the next one, change nothing of Loopback. *)

EmptyHands ==
    \A p \in Readers :
        pc[p] \in {"idle", "lookup", "unwrap", "quarantine", "fail"} =>
            held[p] = NoTok /\ ~stale[p]

RefinementInv == DerefShape /\ EmptyHands

LEMMA EmptyHandsStep ==
    ASSUME RefinementInv, [DerefNext]_allvars
    PROVE  EmptyHands'
<1> USE DEF RefinementInv, DerefShape, DerefTypeOK, ClientTypeOK, EmptyHands, Procs
<1>1. ASSUME NEW p \in Procs, ClientStep(p) PROVE EmptyHands'
    <2> DEFINE quiet == {"idle", "lookup", "unwrap", "quarantine", "fail"}
    <2>1. \A q \in Readers : pc'[q] \in quiet => pc[q] = pc'[q]
        BY <1>1, ClientStepMoves DEF EnsurePCs
    <2>2. \A q \in Readers : pc[q] \in quiet => held'[q] = held[q]
        BY <1>1, ProcsAssumption
           DEF ClientStep, TickStart, Ensure, EnsureLook, EnsureGate, EnsureLoginOK,
               EnsureLoginFails, EnsureRecord, EnsureInstall, GiveUp, Discard, Renew,
               RenewLook, RenewOK, RenewRefused, RenewFails, RenewStore, Hold, Return
    <2>3. \A q \in Readers : pc[q] \in quiet /\ held[q] = NoTok /\ ~stale[q] => ~stale'[q]
        BY <1>1, ProcsAssumption
           DEF ClientStep, TickStart, Ensure, EnsureLook, EnsureGate, EnsureLoginOK,
               EnsureLoginFails, EnsureRecord, EnsureInstall, GiveUp, Discard, Discarded, Renew,
               RenewLook, RenewOK, RenewRefused, RenewFails, RenewStore, Return
    <2> QED BY <2>1, <2>2, <2>3
<1>2. ASSUME NEW p \in Readers, DataRead(p) \/ ReaderStep(p) PROVE EmptyHands'
    <2> USE DEF Goto, Hold, Release, FailWith, Answer, Quiet
    <2>1. CASE DataRead(p) \/ Lookup(p) BY <2>1 DEF DataRead, Lookup
    <2>2. CASE NoClientFails(p) \/ ReadFails(p) \/ UnwrapFails(p) \/ QuarantineFails(p)
        BY <2>2 DEF NoClientFails, ReadFails, UnwrapFails, QuarantineFails
    <2>3. CASE ReadStatic(p) \/ ReadLeased(p) \/ ReadRenewable(p) \/ ReadRefused(p)
        BY <2>3 DEF ReadStatic, ReadLeased, ReadRenewable, ReadRefused
    <2>4. CASE RevokeOK(p) \/ RevokeFails(p) BY <2>4 DEF RevokeOK, RevokeFails
    <2>5. CASE RecycleOK(p) \/ RecycleFails(p) BY <2>5 DEF RecycleOK, RecycleFails
    <2>6. CASE DiscardClient(p) BY <2>6 DEF DiscardClient, Discarded
    <2>7. CASE Quarantine(p) \/ UnwrapOK(p) \/ Fail(p) BY <2>7 DEF Quarantine, UnwrapOK, Fail
    <2> QED BY <1>2, <2>1, <2>2, <2>3, <2>4, <2>5, <2>6, <2>7 DEF ReaderStep
<1>3. CASE MapStep /\ UNCHANGED vars BY <1>3 DEF vars
<1>4. CASE TokenDiesWithLeases BY <1>4 DEF TokenDiesWithLeases, TokenDies
<1>5. CASE BackoffElapses /\ Quiet BY <1>5 DEF BackoffElapses
<1>6. CASE ConfigWrite /\ UNCHANGED lvars /\ Quiet BY <1>6 DEF lvars
<1>7. CASE ConfigRestart /\ LoopbackReset /\ DerefReset BY <1>7 DEF LoopbackReset
<1>8. CASE UNCHANGED allvars BY <1>8 DEF allvars, vars
<1> QED BY <1>1, <1>2, <1>3, <1>4, <1>5, <1>6, <1>7, <1>8 DEF DerefNext

LEMMA RefinementInvStep == RefinementInv /\ [DerefNext]_allvars => RefinementInv'
BY DerefShapeStep, EmptyHandsStep DEF RefinementInv

-----------------------------------------------------------------------------
(* Where a process is, as Loopback sees it.                                  *)

LEMMA PlacesSeen ==
    /\ \A l \in TickerPCs : SeenAs(l) = l
    /\ \A l \in {"lookup", "unwrap", "quarantine", "fail"} : SeenAs(l) = "idle"
    /\ \A l \in {"revoke", "recycle"} : SeenAs(l) = "ready"
BY DEF SeenAs, TickerPCs, ReaderPCs, EnsurePCs

LEMMA PlaceSeen ==
    ASSUME NEW p \in Procs
    PROVE  Seen[p] = SeenAs(pc[p])
BY DEF Seen

\* A process that goes to l is seen to go where l is seen.
LEMMA GotoSeen ==
    ASSUME DerefShape, NEW p \in Procs, NEW l, Goto(p, l)
    PROVE  Seen' = [Seen EXCEPT ![p] = SeenAs(l)]
BY DEF DerefShape, DerefTypeOK, Goto, Seen

\* So the steps of Loopback's own places are seen as they are.
LEMMA LoopbackGoto ==
    ASSUME DerefShape, NEW p \in Procs, NEW l \in TickerPCs, Goto(p, l)
    PROVE  AsLoopback!Goto(p, l)
BY GotoSeen, PlacesSeen DEF AsLoopback!Goto, Seen

LEMMA LoopbackLeave ==
    ASSUME DerefShape, NEW p \in Procs, NEW l \in TickerPCs, Leave(p, l)
    PROVE  AsLoopback!Leave(p, l)
BY LoopbackGoto DEF Leave, AsLoopback!Leave

LEMMA PlainSight ==
    ASSUME DerefShape, NEW p \in Procs
    PROVE  \A l \in TickerPCs :
              /\ pc[p] = l => Seen[p] = l
              /\ Goto(p, l) => AsLoopback!Goto(p, l)
              /\ Leave(p, l) => AsLoopback!Leave(p, l)
BY PlaceSeen, PlacesSeen, LoopbackGoto, LoopbackLeave

LEMMA SameParts ==
    /\ (UNCHANGED shared) <=> UNCHANGED AsLoopback!shared
    /\ (UNCHANGED cvars) <=> UNCHANGED AsLoopback!cvars
    /\ (UNCHANGED clvars) <=> UNCHANGED AsLoopback!clvars
    /\ (UNCHANGED gvars) <=> UNCHANGED AsLoopback!gvars
    /\ \A p, t : Hold(p, t) <=> AsLoopback!Hold(p, t)
    /\ \A t : Fresh(t) <=> AsLoopback!Fresh(t)
    /\ \A p : Discarded(p) = AsLoopback!Discarded(p)
    /\ Procs = AsLoopback!Procs
BY DEF shared, cvars, clvars, gvars, AsLoopback!shared, AsLoopback!cvars, AsLoopback!clvars,
       AsLoopback!gvars, Hold, AsLoopback!Hold, Fresh, AsLoopback!Fresh, Procs,
       AsLoopback!Procs, Discarded, AsLoopback!Discarded

-----------------------------------------------------------------------------
(* The steps.                                                                *)

\* The steps of ensureLoopbackClient, its returns included, are seen as they are.
LEMMA EnsureSeen ==
    ASSUME DerefShape, NEW p \in Procs, Ensure(p)
    PROVE  AsLoopback!Ensure(p)
<1>1. EnsurePCs \cup {"ready", "unavailable"} \subseteq TickerPCs
    BY DEF TickerPCs, ReaderPCs
<1> USE <1>1, PlainSight, SameParts DEF EnsurePCs, Seen
<1>2. CASE EnsureLook(p)
    BY <1>2 DEF EnsureLook, AsLoopback!EnsureLook, AsLoopback!Ensure
<1>3. CASE EnsureGate(p)
    BY <1>3 DEF EnsureGate, AsLoopback!EnsureGate, AsLoopback!Ensure
<1>4. CASE EnsureLoginOK(p)
    BY <1>4 DEF EnsureLoginOK, AsLoopback!EnsureLoginOK, AsLoopback!Ensure
<1>5. CASE EnsureLoginFails(p)
    BY <1>5 DEF EnsureLoginFails, AsLoopback!EnsureLoginFails, AsLoopback!Ensure
<1>6. CASE EnsureRecord(p)
    BY <1>6 DEF EnsureRecord, AsLoopback!EnsureRecord, AsLoopback!Ensure
<1>7. CASE EnsureInstall(p)
    BY <1>7 DEF EnsureInstall, AsLoopback!EnsureInstall, AsLoopback!Ensure
<1> QED BY <1>2, <1>3, <1>4, <1>5, <1>6, <1>7 DEF Ensure

LEMMA ReturnSeen ==
    ASSUME DerefShape, NEW p \in Procs, Return(p)
    PROVE  AsLoopback!Return(p)
<1>1. "idle" \in TickerPCs BY DEF TickerPCs, ReaderPCs
<1> QED BY <1>1, PlainSight, SameParts DEF Return, AsLoopback!Return

\* So are those of a tick.
LEMMA RenewSeen ==
    ASSUME DerefShape, NEW p \in Procs, Renew(p)
    PROVE  AsLoopback!Renew(p)
<1>1. {"ready", "renew", "renewed", "discard", "idle"} \subseteq TickerPCs
    BY DEF TickerPCs, ReaderPCs
<1> USE <1>1, PlainSight, ReturnSeen, SameParts DEF Seen
<1>2. CASE RenewLook(p) BY <1>2 DEF RenewLook, AsLoopback!RenewLook, AsLoopback!Renew
<1>3. CASE RenewOK(p) BY <1>3 DEF RenewOK, AsLoopback!RenewOK, AsLoopback!Renew
<1>4. CASE RenewRefused(p) BY <1>4 DEF RenewRefused, AsLoopback!RenewRefused, AsLoopback!Renew
<1>5. CASE RenewFails(p) BY <1>5 DEF RenewFails, AsLoopback!RenewFails, AsLoopback!Renew
<1>6. CASE RenewStore(p) BY <1>6 DEF RenewStore, AsLoopback!RenewStore, AsLoopback!Renew
<1> QED BY <1>2, <1>3, <1>4, <1>5, <1>6 DEF Renew

LEMMA ClientStepSeen ==
    ASSUME DerefShape, NEW p \in Procs, ClientStep(p)
    PROVE  AsLoopback!LoopbackNext
<1>1. {"idle", "look", "unavailable", "discard"} \subseteq TickerPCs
    BY DEF TickerPCs, ReaderPCs, EnsurePCs
<1>2. Procs = AsLoopback!Procs BY SameParts
<1> USE PlainSight, ReturnSeen, SameParts DEF Seen
<1>3. CASE TickStart(p)
    BY <1>1, <1>2, <1>3 DEF TickStart, AsLoopback!TickStart, AsLoopback!LoopbackNext
<1>4. CASE GiveUp(p)
    BY <1>1, <1>2, <1>4
       DEF GiveUp, AsLoopback!GiveUp, AsLoopback!Proceed, AsLoopback!LoopbackNext
<1>5. CASE Discard(p)
    BY <1>1, <1>2, <1>5
       DEF Discard, AsLoopback!Discard, AsLoopback!Proceed, AsLoopback!LoopbackNext
<1>6. CASE Ensure(p) \/ Renew(p)
    BY <1>2, <1>6, EnsureSeen, RenewSeen DEF AsLoopback!Proceed, AsLoopback!LoopbackNext
<1> QED BY <1>3, <1>4, <1>5, <1>6 DEF ClientStep

-----------------------------------------------------------------------------
(* Reads.                                                                    *)

\* A reader that lets go of the client is seen to return.
LEMMA ReleaseSeen ==
    ASSUME DerefShape, NEW p \in Procs, NEW l \in {"idle", "unwrap", "quarantine", "fail"},
           Release(p, l)
    PROVE  AsLoopback!Return(p)
<1>1. SeenAs(l) = "idle"
    BY PlacesSeen DEF TickerPCs, ReaderPCs
<1>2. AsLoopback!Goto(p, "idle")
    BY <1>1, GotoSeen DEF Release, AsLoopback!Goto, Seen
<1> QED BY <1>2, SameParts DEF Release, AsLoopback!Return

LEMMA Stutter ==
    ASSUME UNCHANGED <<shared, held, lcfg, stale>>, Seen' = Seen
    PROVE  UNCHANGED AsLoopback!vars
BY DEF shared, cvars, clvars, gvars, AsLoopback!vars, Seen

\* A reader without a client that goes where none is needed is not seen at all.
LEMMA UnseenRelease ==
    ASSUME RefinementInv, NEW p \in Readers, NEW l \in {"idle", "unwrap", "quarantine", "fail"},
           pc[p] \in {"idle", "lookup", "unwrap", "quarantine", "fail"},
           Release(p, l), UNCHANGED <<shared, lcfg>>
    PROVE  UNCHANGED AsLoopback!vars
<1>1. SeenAs(l) = "idle" /\ SeenAs(pc[p]) = "idle"
    BY PlacesSeen DEF TickerPCs, ReaderPCs
<1>2. p \in Procs BY DEF Procs
<1>3. Seen' = [Seen EXCEPT ![p] = Seen[p]]
    BY <1>1, <1>2, GotoSeen, PlaceSeen DEF Release, RefinementInv
<1>4. Seen' = Seen BY <1>3 DEF Seen
<1>5. held' = held /\ stale' = stale
    BY <1>2 DEF Release, Hold, RefinementInv, DerefShape, DerefTypeOK, ClientTypeOK, EmptyHands
<1> QED BY <1>4, <1>5, Stutter

\* A place that is seen as the place before is not seen to be reached.
LEMMA UnseenGoto ==
    ASSUME DerefShape, NEW p \in Procs, NEW l, Goto(p, l), SeenAs(l) = SeenAs(pc[p]),
           UNCHANGED <<shared, held, lcfg, stale>>
    PROVE  UNCHANGED AsLoopback!vars
<1>1. Seen' = [Seen EXCEPT ![p] = Seen[p]] BY GotoSeen, PlaceSeen
<1>2. Seen' = Seen BY <1>1 DEF Seen
<1> QED BY <1>2, Stutter

\* A call of Loopback is seen to begin or to go on.
ProceedSeen == \E p \in Procs : AsLoopback!Request(p) \/ AsLoopback!Proceed(p)

\* What a read does with its copy of the entry is not seen; the rest is a step of
\* a request that uses the client.
LEMMA ReadSeen ==
    ASSUME RefinementInv, NEW p \in Readers, DataRead(p) \/ ReaderStep(p)
    PROVE  ProceedSeen \/ UNCHANGED AsLoopback!vars
<1>1. p \in Procs BY DEF Procs
<1>2. DerefShape BY DEF RefinementInv
<1>3. {"idle", "look", "ready", "unavailable", "discard"} \subseteq TickerPCs
    BY DEF TickerPCs, ReaderPCs, EnsurePCs
<1>4. \A l : pc[p] = l => Seen[p] = SeenAs(l) BY <1>1, PlaceSeen
<1>5. SeenAs("ready") = "ready" /\ SeenAs("discard") = "discard" /\ SeenAs("idle") = "idle"
        /\ SeenAs("unavailable") = "unavailable" /\ SeenAs("look") = "look"
    BY <1>3, PlacesSeen
<1> USE <1>1, <1>2, PlacesSeen, SameParts
<1>6. CASE DataRead(p) BY <1>5, <1>6, UnseenGoto DEF DataRead
<1>7. CASE Lookup(p)
    <2>1. CASE Answer(p) BY <1>7, <2>1, UnseenRelease DEF Lookup, Answer
    <2>2. CASE ~Answer(p)
        <3>1. Goto(p, "look") /\ UNCHANGED <<shared, held, lcfg, stale>> /\ pc[p] = "lookup"
            BY <1>7, <2>2 DEF Lookup
        <3>2. Seen' = [Seen EXCEPT ![p] = "look"] BY <1>5, <3>1, GotoSeen
        <3>3. Seen[p] = "idle" BY <1>4, <3>1
        <3>4. AsLoopback!Goto(p, "look") BY <3>2 DEF AsLoopback!Goto, Seen
        <3> QED BY <3>1, <3>3, <3>4 DEF AsLoopback!Request, ProceedSeen, Seen
    <2> QED BY <2>1, <2>2
<1>8. CASE NoClientFails(p)
    <2>1. AsLoopback!Return(p) BY <1>8, ReleaseSeen DEF NoClientFails, FailWith
    <2>2. Seen[p] = "unavailable" BY <1>4, <1>5, <1>8 DEF NoClientFails
    <2>3. UNCHANGED <<shared, lcfg>> BY <1>8 DEF NoClientFails, FailWith
    <2> QED BY <2>1, <2>2, <2>3 DEF AsLoopback!GiveUp, AsLoopback!Proceed, ProceedSeen, Seen
<1>9. ASSUME SeenAs(pc[p]) = "ready", UNCHANGED <<shared, lcfg>>,
             NEW l \in {"quarantine", "fail", "unwrap"}, Release(p, l)
      PROVE  ProceedSeen
    <2>1. AsLoopback!Return(p) BY <1>9, ReleaseSeen
    <2>2. Seen[p] = "ready" BY <1>9, PlaceSeen
    <2>3. AsLoopback!UseFails(p) BY <1>9, <2>1, <2>2 DEF AsLoopback!UseFails, Seen
    <2> QED BY <2>3 DEF AsLoopback!Use, AsLoopback!Proceed, ProceedSeen
<1>10. CASE ReadStatic(p) \/ ReadRenewable(p) \/ ReadFails(p) \/ RevokeOK(p)
    BY <1>5, <1>9, <1>10 DEF ReadStatic, ReadRenewable, ReadFails, RevokeOK, FailWith
<1>11. CASE ReadLeased(p) \/ RevokeFails(p)
    BY <1>5, <1>11, UnseenGoto DEF ReadLeased, RevokeFails
<1>12. ASSUME SeenAs(pc[p]) = "ready", Goto(p, "discard")
       PROVE  Seen[p] = "ready" /\ AsLoopback!Goto(p, "discard")
    BY <1>3, <1>12, PlaceSeen, LoopbackGoto
<1>13. CASE ReadRefused(p) \/ RecycleFails(p)
    <2>1. Seen[p] = "ready" /\ AsLoopback!Goto(p, "discard")
        BY <1>5, <1>12, <1>13 DEF ReadRefused, RecycleFails
    <2>2. UNCHANGED <<shared, held, lcfg, stale>> BY <1>13 DEF ReadRefused, RecycleFails
    <2>3. AsLoopback!UseRefused(p) BY <2>1, <2>2 DEF AsLoopback!UseRefused, Seen
    <2> QED BY <2>3 DEF AsLoopback!Use, AsLoopback!Proceed, ProceedSeen
<1>14. CASE RecycleOK(p)
    <2>1. Seen[p] = "ready" /\ AsLoopback!Goto(p, "discard")
        BY <1>12, <1>14 DEF RecycleOK
    <2>2. AsLoopback!UseRecycle(p)
        BY <1>14, <2>1 DEF RecycleOK, AsLoopback!UseRecycle, Seen
    <2> QED BY <2>2 DEF AsLoopback!Use, AsLoopback!Proceed, ProceedSeen
<1>15. CASE DiscardClient(p)
    <2>1. Seen[p] = "discard" BY <1>4, <1>5, <1>15 DEF DiscardClient
    <2>2. PICK l \in {"quarantine", "fail"} : Goto(p, l) BY <1>15 DEF DiscardClient
    <2>3. AsLoopback!Goto(p, "idle") BY <2>2, GotoSeen DEF AsLoopback!Goto, Seen
    <2>4. AsLoopback!Discard(p)
        BY <1>15, <2>1, <2>3 DEF DiscardClient, AsLoopback!Discard, Seen
    <2> QED BY <2>4 DEF AsLoopback!Proceed, ProceedSeen
<1>16. CASE Quarantine(p) \/ QuarantineFails(p) \/ UnwrapOK(p) \/ UnwrapFails(p) \/ Fail(p)
    BY <1>16, UnseenRelease
       DEF Quarantine, QuarantineFails, UnwrapOK, UnwrapFails, Fail, FailWith, Answer
<1> QED BY <1>6, <1>7, <1>8, <1>10, <1>11, <1>13, <1>14, <1>15, <1>16 DEF ReaderStep

-----------------------------------------------------------------------------
LEMMA InitSeen == DerefInit => RefinementInv /\ AsLoopback!LoopbackInit
<1> SUFFICES ASSUME DerefInit PROVE RefinementInv /\ AsLoopback!LoopbackInit
    OBVIOUS
<1>1. RefinementInv
    BY DerefShapeInit DEF RefinementInv, EmptyHands, DerefInit, LoopbackInit, Procs
<1>2. Seen = [p \in Procs |-> "idle"]
    BY PlacesSeen DEF Seen, DerefInit, LoopbackInit, TickerPCs, ReaderPCs
<1>3. AsLoopback!ConfigInit
    BY DEF DerefInit, LoopbackInit, ConfigInit, AsLoopback!ConfigInit, ValidCfgs,
           AsLoopback!ValidCfgs, Validate, AsLoopback!Validate
<1>4. AsLoopback!LoopbackInit
    BY <1>2, <1>3, SameParts DEF DerefInit, LoopbackInit, AsLoopback!LoopbackInit, Seen
<1> QED BY <1>1, <1>4

LEMMA StepSeen ==
    ASSUME RefinementInv, [DerefNext]_allvars
    PROVE  [AsLoopback!LoopbackNext]_(AsLoopback!vars)
<1>1. DerefShape BY DEF RefinementInv
<1>2. CASE \E p \in Procs : ClientStep(p) BY <1>1, <1>2, ClientStepSeen
<1>3. CASE \E p \in Readers : DataRead(p) \/ ReaderStep(p)
    BY <1>3, ReadSeen, SameParts DEF ProceedSeen, AsLoopback!LoopbackNext
<1>4. CASE UNCHANGED vars BY <1>4 DEF vars, AsLoopback!vars
<1>5. CASE TokenDiesWithLeases
    BY <1>5, SameParts
       DEF TokenDiesWithLeases, TokenDies, AsLoopback!TokenDies, AsLoopback!LoopbackNext
<1>6. CASE BackoffElapses
    BY <1>6, SameParts DEF BackoffElapses, AsLoopback!BackoffElapses, AsLoopback!LoopbackNext
<1>7. CASE ConfigWrite /\ UNCHANGED lvars
    <2>1. AsLoopback!ConfigWrite
        BY <1>7 DEF ConfigWrite, AsLoopback!ConfigWrite, ConfigPut, AsLoopback!ConfigPut,
            ConfigCache, AsLoopback!ConfigCache, Validate, AsLoopback!Validate
    <2>2. UNCHANGED AsLoopback!lvars BY <1>7 DEF lvars, AsLoopback!lvars
    <2> QED BY <2>1, <2>2 DEF AsLoopback!LoopbackNext
<1>8. CASE ConfigRestart /\ LoopbackReset
    <2>1. AsLoopback!ConfigRestart BY <1>8 DEF ConfigRestart, AsLoopback!ConfigRestart
    <2>2. Seen' = [p \in Procs |-> "idle"]
        BY <1>8, PlacesSeen DEF LoopbackReset, Seen, TickerPCs, ReaderPCs
    <2>3. AsLoopback!LoopbackReset
        BY <1>8, <2>2, SameParts DEF LoopbackReset, AsLoopback!LoopbackReset, Seen
    <2> QED BY <2>1, <2>3 DEF AsLoopback!LoopbackNext
<1> QED BY <1>2, <1>3, <1>4, <1>5, <1>6, <1>7, <1>8 DEF DerefNext, allvars

\* A read uses the loopback client as Loopback allows and in no other way, with
\* any number of readers, views and mapping writes: whatever holds of Loopback
\* holds of the client that reads share.
THEOREM DereferenceRefines == DerefSpec => ImplementsLoopback
<1>1. DerefInit => RefinementInv /\ AsLoopback!LoopbackInit BY InitSeen
<1>2. RefinementInv /\ [DerefNext]_allvars => RefinementInv' BY RefinementInvStep
<1>3. RefinementInv /\ [DerefNext]_allvars => [AsLoopback!LoopbackNext]_(AsLoopback!vars)
    BY StepSeen
<1> QED BY <1>1, <1>2, <1>3, PTL DEF DerefSpec, ImplementsLoopback, AsLoopback!LoopbackSpec

-----------------------------------------------------------------------------
(* What is proved of Loopback, told of Dereference.  The theorems are those   *)
(* of LoopbackProofs with each reader where Loopback sees it.                 *)

SeenProofs == INSTANCE LoopbackProofs WITH pc <- [p \in Procs |-> SeenAs(pc[p])]

\* Both instances speak of the same specification.
LEMMA SameInit == AsLoopback!LoopbackInit <=> SeenProofs!LoopbackInit
BY Zenon
   DEF AsLoopback!LoopbackInit, SeenProofs!LoopbackInit, AsLoopback!ConfigInit,
       SeenProofs!ConfigInit, AsLoopback!ValidCfgs, SeenProofs!ValidCfgs,
       AsLoopback!Validate, SeenProofs!Validate, AsLoopback!Procs, SeenProofs!Procs

LEMMA SameNext == AsLoopback!LoopbackNext <=> SeenProofs!LoopbackNext
BY Zenon
   DEF AsLoopback!LoopbackNext, SeenProofs!LoopbackNext, AsLoopback!vars,
       SeenProofs!vars, AsLoopback!lvars, SeenProofs!lvars, AsLoopback!shared,
       SeenProofs!shared, AsLoopback!cvars, SeenProofs!cvars, AsLoopback!clvars,
       SeenProofs!clvars, AsLoopback!gvars, SeenProofs!gvars, AsLoopback!Procs,
       SeenProofs!Procs, AsLoopback!Request, SeenProofs!Request, AsLoopback!TickStart,
       SeenProofs!TickStart, AsLoopback!Proceed, SeenProofs!Proceed, AsLoopback!Ensure,
       SeenProofs!Ensure, AsLoopback!Use, SeenProofs!Use, AsLoopback!Renew,
       SeenProofs!Renew, AsLoopback!EnsureLook, SeenProofs!EnsureLook,
       AsLoopback!EnsureGate, SeenProofs!EnsureGate, AsLoopback!EnsureLoginOK,
       SeenProofs!EnsureLoginOK, AsLoopback!EnsureLoginFails,
       SeenProofs!EnsureLoginFails, AsLoopback!EnsureRecord, SeenProofs!EnsureRecord,
       AsLoopback!EnsureInstall, SeenProofs!EnsureInstall, AsLoopback!GiveUp,
       SeenProofs!GiveUp, AsLoopback!UseOK, SeenProofs!UseOK, AsLoopback!UseRefused,
       SeenProofs!UseRefused, AsLoopback!UseFails, SeenProofs!UseFails,
       AsLoopback!UseRecycle, SeenProofs!UseRecycle, AsLoopback!Discard,
       SeenProofs!Discard, AsLoopback!Discarded, SeenProofs!Discarded,
       AsLoopback!RenewLook, SeenProofs!RenewLook, AsLoopback!RenewOK,
       SeenProofs!RenewOK, AsLoopback!RenewRefused, SeenProofs!RenewRefused,
       AsLoopback!RenewFails, SeenProofs!RenewFails, AsLoopback!RenewStore,
       SeenProofs!RenewStore, AsLoopback!TokenDies, SeenProofs!TokenDies,
       AsLoopback!BackoffElapses, SeenProofs!BackoffElapses, AsLoopback!ConfigWrite,
       SeenProofs!ConfigWrite, AsLoopback!ConfigPut, SeenProofs!ConfigPut,
       AsLoopback!ConfigCache, SeenProofs!ConfigCache, AsLoopback!ConfigRestart,
       SeenProofs!ConfigRestart, AsLoopback!LoopbackReset, SeenProofs!LoopbackReset,
       AsLoopback!Goto, SeenProofs!Goto, AsLoopback!Hold, SeenProofs!Hold,
       AsLoopback!Leave, SeenProofs!Leave, AsLoopback!Return, SeenProofs!Return,
       AsLoopback!Fresh, SeenProofs!Fresh, AsLoopback!Validate, SeenProofs!Validate

LEMMA SameStutter == (UNCHANGED AsLoopback!vars) <=> UNCHANGED SeenProofs!vars
BY DEF AsLoopback!vars, SeenProofs!vars

LEMMA SameStep ==
    [AsLoopback!LoopbackNext]_(AsLoopback!vars) <=> [SeenProofs!LoopbackNext]_(SeenProofs!vars)
BY SameNext, SameStutter, Zenon

LEMMA SeenByLoopback == DerefSpec => SeenProofs!LoopbackSpec
BY DereferenceRefines, SameInit, SameStep, PTL
   DEF ImplementsLoopback, AsLoopback!LoopbackSpec, SeenProofs!LoopbackSpec

\* Whatever reads do between their calls of the client, no late install and no
\* late renewal brings a client back that a read has discarded, and logins are
\* held back only while failures are on record.
THEOREM ReadsShareSoundClient == DerefSpec => []DiscardedNeverReturns /\ []BackoffHasCause
<1>1. SeenProofs!LoopbackSpec => []SeenProofs!DiscardedNeverReturns
    BY SeenProofs!DiscardedStaysDiscarded, PTL, NoTokAssumption, NoCfgAssumption,
       ConfigFlagAssumption, ProcsAssumption, MaxFailuresAssumption
<1>2. SeenProofs!LoopbackSpec => []SeenProofs!BackoffHasCause
    BY SeenProofs!BackoffSound, PTL, NoTokAssumption, NoCfgAssumption,
       ConfigFlagAssumption, ProcsAssumption, MaxFailuresAssumption
<1>3. SeenProofs!DiscardedNeverReturns => DiscardedNeverReturns
    BY DEF DiscardedNeverReturns, SeenProofs!DiscardedNeverReturns, Procs, SeenProofs!Procs
<1>4. SeenProofs!BackoffHasCause => BackoffHasCause
    BY DEF BackoffHasCause, SeenProofs!BackoffHasCause
<1> QED BY <1>1, <1>2, <1>3, <1>4, SeenByLoopback, PTL
=============================================================================
