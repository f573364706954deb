--------------------------- MODULE LoopbackProofs ---------------------------
(* Proofs about Loopback, for every set of processes, tokens and bodies.   *)
EXTENDS Loopback, EngineConfigProofs

-----------------------------------------------------------------------------
(* Type correctness.                                                       *)

\* The configuration actions keep their types whatever the client does.
LEMMA ConfigPartStep == ConfigTypeOK /\ [LoopbackNext]_vars => ConfigTypeOK'
<1> SUFFICES ASSUME ConfigTypeOK, [LoopbackNext]_vars PROVE [ConfigNext]_cvars
    BY ConfigTypeStep
<1>1. ASSUME NEW p \in Procs, Request(p) \/ TickStart(p) \/ Proceed(p)
      PROVE  UNCHANGED cvars
    BY <1>1 DEF Request, TickStart, Proceed, Ensure, Use, Renew, shared,
        EnsureLook, EnsureGate, EnsureLoginOK, EnsureLoginFails, EnsureRecord,
        EnsureInstall, GiveUp, UseOK, UseRefused, UseFails, UseRecycle, Discard,
        RenewLook, RenewOK, RenewRefused, RenewFails, RenewStore
<1>2. CASE TokenDies BY <1>2 DEF TokenDies
<1>3. CASE BackoffElapses BY <1>3 DEF BackoffElapses
<1>4. CASE ConfigWrite BY <1>4 DEF ConfigNext
<1>5. CASE ConfigRestart BY <1>5 DEF ConfigNext
<1>6. CASE UNCHANGED vars BY <1>6 DEF vars, cvars
<1> QED BY <1>1, <1>2, <1>3, <1>4, <1>5, <1>6 DEF LoopbackNext

LEMMA MaxFailuresPositive ==
    /\ 0 \in 0..MaxFailures
    /\ \A n \in 0..MaxFailures : n < MaxFailures => n + 1 \in 0..MaxFailures
BY MaxFailuresAssumption

LEMMA LoopbackTypeInit == LoopbackInit => LoopbackTypeOK
BY ConfigTypeInit, MaxFailuresPositive
   DEF LoopbackInit, LoopbackTypeOK, ClientTypeOK, TickerPCs, ReaderPCs

\* A step of a process keeps the types, wherever the other processes are.
LEMMA ProcessTypeStep ==
    ASSUME ConfigTypeOK, ClientTypeOK,
           NEW p \in Procs, Request(p) \/ TickStart(p) \/ Proceed(p)
    PROVE  ClientTypeOK'
<1> USE DEF ConfigTypeOK, ClientTypeOK, Goto, Hold, Return, Leave, shared, clvars, gvars
<1>1. CASE Request(p) \/ TickStart(p) BY <1>1 DEF Request, TickStart
<1>2. CASE Ensure(p)
    <2>1. CASE EnsureLook(p) BY <2>1 DEF EnsureLook
    <2>2. CASE EnsureGate(p) BY <2>2 DEF EnsureGate
    <2>3. CASE EnsureLoginOK(p) BY <2>3 DEF EnsureLoginOK
    <2>4. CASE EnsureLoginFails(p) BY <2>4 DEF EnsureLoginFails
    <2>5. CASE EnsureRecord(p) BY <2>5, MaxFailuresPositive DEF EnsureRecord
    <2>6. CASE EnsureInstall(p) BY <2>6 DEF EnsureInstall
    <2> QED BY <1>2, <2>1, <2>2, <2>3, <2>4, <2>5, <2>6 DEF Ensure
<1>3. CASE GiveUp(p) BY <1>3 DEF GiveUp
<1>4. CASE Use(p) BY <1>4 DEF Use, UseOK, UseRefused, UseFails, UseRecycle
<1>5. CASE Discard(p) BY <1>5 DEF Discard
<1>6. CASE Renew(p)
    BY <1>6 DEF Renew, RenewLook, RenewOK, RenewRefused, RenewFails, RenewStore
<1> QED BY <1>1, <1>2, <1>3, <1>4, <1>5, <1>6 DEF Proceed

\* A step of a process takes it, and nobody else, to one of the places it has.
LEMMA ProcessMoves ==
    ASSUME NEW p \in Procs, Request(p) \/ TickStart(p) \/ Proceed(p)
    PROVE  \E l \in TickerPCs : pc' = [pc EXCEPT ![p] = l]
<1> USE DEF TickerPCs, ReaderPCs, EnsurePCs, Goto, Return, Leave
<1>1. CASE Request(p) \/ TickStart(p) BY <1>1 DEF Request, TickStart
<1>2. CASE Ensure(p)
    BY <1>2 DEF Ensure, EnsureLook, EnsureGate, EnsureLoginOK, EnsureLoginFails,
                EnsureRecord, EnsureInstall
<1>3. CASE GiveUp(p) \/ Use(p) \/ Discard(p)
    BY <1>3 DEF GiveUp, Use, UseOK, UseRefused, UseFails, UseRecycle, Discard
<1>4. CASE Renew(p)
    BY <1>4 DEF Renew, RenewLook, RenewOK, RenewRefused, RenewFails, RenewStore
<1> QED BY <1>1, <1>2, <1>3, <1>4 DEF Proceed

LEMMA LoopbackTypeStep == LoopbackTypeOK /\ [LoopbackNext]_vars => LoopbackTypeOK'
<1> SUFFICES ASSUME LoopbackTypeOK, [LoopbackNext]_vars
             PROVE  ClientTypeOK' /\ (pc \in [Procs -> TickerPCs])'
    BY ConfigPartStep DEF LoopbackTypeOK
<1> USE DEF LoopbackTypeOK
<1>1. ASSUME NEW p \in Procs, Request(p) \/ TickStart(p) \/ Proceed(p)
      PROVE  ClientTypeOK' /\ (pc \in [Procs -> TickerPCs])'
    <2>1. ClientTypeOK' BY <1>1, ProcessTypeStep
    <2>2. PICK l \in TickerPCs : pc' = [pc EXCEPT ![p] = l] BY <1>1, ProcessMoves
    <2> QED BY <2>1, <2>2
<1> USE DEF ConfigTypeOK, ClientTypeOK, clvars, gvars
<1>2. CASE TokenDies BY <1>2 DEF TokenDies
<1>3. CASE BackoffElapses BY <1>3 DEF BackoffElapses
<1>4. CASE ConfigWrite /\ UNCHANGED lvars BY <1>4 DEF lvars
<1>5. CASE ConfigRestart /\ LoopbackReset
    BY <1>5, MaxFailuresPositive DEF LoopbackReset, TickerPCs, ReaderPCs
<1>6. CASE UNCHANGED vars BY <1>6 DEF vars
<1> QED BY <1>1, <1>2, <1>3, <1>4, <1>5, <1>6 DEF LoopbackNext

\* Type correctness: in particular a login, and hence a client, is only ever
\* built from a configuration that passed validation.
THEOREM LoopbackTypeCorrect == LoopbackSpec => []LoopbackTypeOK
<1>1. LoopbackInit => LoopbackTypeOK BY LoopbackTypeInit
<1>2. LoopbackTypeOK /\ [LoopbackNext]_vars => LoopbackTypeOK' BY LoopbackTypeStep
<1> QED BY <1>1, <1>2, PTL DEF LoopbackSpec

-----------------------------------------------------------------------------
(* The governor.                                                           *)

LEMMA BackoffStep ==
    LoopbackTypeOK /\ BackoffHasCause /\ [LoopbackNext]_vars => BackoffHasCause'
<1> SUFFICES ASSUME LoopbackTypeOK, BackoffHasCause, [LoopbackNext]_vars
             PROVE  BackoffHasCause'
    OBVIOUS
<1> USE DEF LoopbackTypeOK, ClientTypeOK, BackoffHasCause, shared, gvars
<1>1. ASSUME NEW p \in Procs, EnsureRecord(p) PROVE BackoffHasCause'
    BY <1>1, MaxFailuresAssumption DEF EnsureRecord
<1>2. ASSUME NEW p \in Procs, Request(p) \/ TickStart(p) \/ Proceed(p), ~EnsureRecord(p)
      PROVE  UNCHANGED gvars
    BY <1>2 DEF Request, TickStart, Proceed, Ensure, Use, Renew,
        EnsureLook, EnsureGate, EnsureLoginOK, EnsureLoginFails,
        EnsureInstall, GiveUp, UseOK, UseRefused, UseFails, UseRecycle, Discard,
        RenewLook, RenewOK, RenewRefused, RenewFails, RenewStore
<1>3. CASE TokenDies BY <1>3 DEF TokenDies
<1>4. CASE BackoffElapses BY <1>4 DEF BackoffElapses
<1>5. CASE ConfigWrite /\ UNCHANGED lvars BY <1>5 DEF lvars
<1>6. CASE ConfigRestart /\ LoopbackReset BY <1>6 DEF LoopbackReset
<1>7. CASE UNCHANGED vars BY <1>7 DEF vars
<1> QED BY <1>1, <1>2, <1>3, <1>4, <1>5, <1>6, <1>7 DEF LoopbackNext

\* Logins are held back only while the failure that caused it is on record.
THEOREM BackoffSound == LoopbackSpec => []BackoffHasCause
<1>1. LoopbackInit => LoopbackTypeOK /\ BackoffHasCause
    BY LoopbackTypeInit DEF LoopbackInit, BackoffHasCause
<1>2. LoopbackTypeOK /\ BackoffHasCause /\ [LoopbackNext]_vars
          => LoopbackTypeOK' /\ BackoffHasCause'
    BY LoopbackTypeStep, BackoffStep
<1> QED BY <1>1, <1>2, PTL DEF LoopbackSpec

-----------------------------------------------------------------------------
(* A discarded client does not come back.  What makes it so: a process that  *)
(* is about to install a client is the only one to know its token, and it    *)
(* held nothing before, so nobody can have been refused with it.             *)

\* Where ensureLoopbackClient has not produced a client yet.
Empty == {"idle", "look", "gate", "login", "refusedlogin", "unavailable"}

EmptyHanded ==
    \A p \in Procs : /\ pc[p] \in Empty => held[p] = NoTok
                     /\ stale[p] => held[p] # NoTok

PrivateGrant ==
    \A p \in Procs : pc[p] \in {"granted", "install"} =>
        /\ held[p] # NoTok /\ held[p] # client /\ ~stale[p]
        /\ \A q \in Procs \ {p} : held[q] # held[p]

DiscardInv == LoopbackTypeOK /\ EmptyHanded /\ PrivateGrant /\ DiscardedNeverReturns

LEMMA DiscardStep == DiscardInv /\ [LoopbackNext]_vars => DiscardInv'
<1> SUFFICES ASSUME DiscardInv, [LoopbackNext]_vars
             PROVE  (EmptyHanded /\ PrivateGrant /\ DiscardedNeverReturns)'
    BY LoopbackTypeStep DEF DiscardInv
<1> DEFINE Goal == (EmptyHanded /\ PrivateGrant /\ DiscardedNeverReturns)'
<1> USE NoTokAssumption
        DEF DiscardInv, LoopbackTypeOK, ClientTypeOK, EmptyHanded, PrivateGrant,
            DiscardedNeverReturns, Empty, Goto, Hold, Return, Leave, shared, clvars
<1>1. ASSUME NEW p \in Procs, Request(p) \/ TickStart(p) PROVE Goal
    BY <1>1 DEF Request, TickStart
<1>2. ASSUME NEW p \in Procs, Ensure(p) PROVE Goal
    <2>1. CASE EnsureLook(p) BY <2>1 DEF EnsureLook
    <2>2. CASE EnsureGate(p) BY <2>2 DEF EnsureGate
    <2>3. CASE EnsureLoginOK(p) BY <2>3 DEF EnsureLoginOK, Fresh
    <2>4. CASE EnsureLoginFails(p) BY <2>4 DEF EnsureLoginFails
    <2>5. CASE EnsureRecord(p) BY <2>5 DEF EnsureRecord
    <2>6. CASE EnsureInstall(p) BY <2>6 DEF EnsureInstall
    <2> QED BY <1>2, <2>1, <2>2, <2>3, <2>4, <2>5, <2>6 DEF Ensure
<1>3. ASSUME NEW p \in Procs, GiveUp(p) \/ Use(p) PROVE Goal
    BY <1>3 DEF GiveUp, Use, UseOK, UseRefused, UseFails, UseRecycle
<1>4. ASSUME NEW p \in Procs, Discard(p) PROVE Goal
    BY <1>4 DEF Discard, Discarded
<1>5. ASSUME NEW p \in Procs, Renew(p) PROVE Goal
    <2>1. CASE RenewLook(p) BY <2>1 DEF RenewLook
    <2>2. CASE RenewOK(p) \/ RenewRefused(p) BY <2>2 DEF RenewOK, RenewRefused
    <2>3. CASE RenewFails(p) \/ RenewStore(p) BY <2>3 DEF RenewFails, RenewStore
    <2> QED BY <1>5, <2>1, <2>2, <2>3 DEF Renew
<1>6. CASE TokenDies BY <1>6 DEF TokenDies
<1>7. CASE BackoffElapses BY <1>7 DEF BackoffElapses
<1>8. CASE ConfigWrite /\ UNCHANGED lvars BY <1>8 DEF lvars
<1>9. CASE ConfigRestart /\ LoopbackReset BY <1>9 DEF LoopbackReset
<1>10. CASE UNCHANGED vars BY <1>10 DEF vars
<1> QED BY <1>1, <1>2, <1>3, <1>4, <1>5, <1>6, <1>7, <1>8, <1>9, <1>10
        DEF LoopbackNext, Proceed

\* Once discarded, for a 403 or with its recycled token, a client is never the
\* current one again, however many processes still hold it.
THEOREM DiscardedStaysDiscarded == LoopbackSpec => []DiscardedNeverReturns
<1>1. LoopbackInit => DiscardInv
    BY LoopbackTypeInit
       DEF LoopbackInit, DiscardInv, EmptyHanded, PrivateGrant, DiscardedNeverReturns
<1>2. DiscardInv /\ [LoopbackNext]_vars => DiscardInv' BY DiscardStep
<1>3. DiscardInv => DiscardedNeverReturns BY DEF DiscardInv
<1> QED BY <1>1, <1>2, <1>3, PTL DEF LoopbackSpec
=============================================================================
