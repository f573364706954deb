----------------------------- MODULE PacedProofs -----------------------------
(* Proofs about PacedLoopback, for every delay, period, latency and TTL.     *)
(* The delays are the values of a recursive function; what is needed of them *)
(* is the hypothesis DelaysGrow, which TLC evaluates on the instance.        *)
EXTENDS PacedLoopback, LoopbackProofs

-----------------------------------------------------------------------------
(* The clock only restricts Loopback: every timed step is one of its steps.  *)

LEMMA CallIsLoopbacks ==
    ASSUME NEW p \in Procs, PacedCall(p)
    PROVE  Request(p) \/ TickStart(p) \/ Proceed(p)
BY DEF PacedCall, PacedBegin, PacedLocal, PacedLogin, PacedRecord, PacedInstall, PacedAnswer,
       PacedDiscard, PacedRenewLook, PacedRenew, PacedRenewStore, Proceed, Ensure, Use, Renew

LEMMA PacedStepIsLoopbacks == [PacedNext]_pacedvars => [LoopbackNext]_vars
<1> SUFFICES ASSUME [PacedNext]_pacedvars PROVE [LoopbackNext]_vars OBVIOUS
<1>1. CASE \E p \in Procs : PacedCall(p) BY <1>1, CallIsLoopbacks DEF LoopbackNext
<1>2. CASE IdleTick BY <1>2 DEF IdleTick
<1>3. CASE Expire BY <1>3 DEF Expire, LoopbackNext
<1>4. CASE ConfigWrite /\ UNCHANGED <<lvars, timers, busy>> BY <1>4 DEF LoopbackNext
<1>5. CASE PacedRestart BY <1>5 DEF PacedRestart, LoopbackNext
<1>6. CASE OutageTurns BY <1>6 DEF OutageTurns
<1>7. CASE Elapse BY <1>7 DEF Elapse, LoopbackNext
<1>8. CASE UNCHANGED pacedvars BY <1>8 DEF pacedvars
<1> QED BY <1>1, <1>2, <1>3, <1>4, <1>5, <1>6, <1>7, <1>8 DEF PacedNext

\* The engine with its timers implements the engine without: what is proved of
\* Loopback for arbitrary timing holds of every timing the code's timers allow.
THEOREM PacedRefinesLoopback == PacedSpec => LoopbackSpec
<1>1. PacedInit => LoopbackInit BY DEF PacedInit
<1> QED BY <1>1, PacedStepIsLoopbacks, PTL DEF PacedSpec, LoopbackSpec

\* No late install and no late renewal of the timed engine brings a discarded
\* client back, and its governor holds logins back for a failure on record only.
THEOREM PacedClientSound == PacedSpec => []DiscardedNeverReturns /\ []BackoffHasCause
BY PacedRefinesLoopback, DiscardedStaysDiscarded, BackoffSound

-----------------------------------------------------------------------------
(* Types.                                                                    *)

LEMMA MarginIsNat == Margin \in Nat
BY ClockAssumption DEF Margin

\* The delay a failure schedules.
LEMMA RecordedDelay ==
    ASSUME DelaysGrow, LoopbackTypeOK, NEW p \in Procs, PacedRecord(p)
    PROVE  \/ failures' = 0 /\ wait' = 0
           \/ /\ failures' \in 1..MaxFailures
              /\ failures' = failures \/ failures' = failures + 1
              /\ wait' = Delay(failures') /\ wait' \in 1..MaxDelay
<1>1. failures \in 0..MaxFailures BY DEF LoopbackTypeOK, ClientTypeOK
<1>2. CASE pc[p] = "granted" BY <1>2 DEF PacedRecord, EnsureRecord
<1>3. CASE pc[p] # "granted"
    <2>1. failures' = (IF failures < MaxFailures THEN failures + 1 ELSE failures)
          /\ wait' = Delay(failures')
        BY <1>3 DEF PacedRecord, EnsureRecord
    <2>2. failures' \in 1..MaxFailures BY <1>1, <2>1, MaxFailuresAssumption
    <2> QED BY <2>1, <2>2 DEF DelaysGrow
<1> QED BY <1>2, <1>3

TimersOK ==
    /\ wait \in 0..MaxDelay
    /\ age \in 0..Margin
    /\ life \in [Tokens -> 0..TTL]
    /\ sinceTick \in 0..Period
    /\ busy \in [Procs -> 0..Latency]
    /\ outage \in BOOLEAN /\ down \in Nat /\ missed \in BOOLEAN

LEMMA TimersInit == PacedInit => TimersOK
<1>1. PacedInit => outage \in BOOLEAN /\ missed \in BOOLEAN BY Zenon DEF PacedInit
<1>2. PacedInit => /\ wait \in 0..MaxDelay /\ age \in 0..Margin /\ life \in [Tokens -> 0..TTL]
                   /\ sinceTick \in 0..Period /\ busy \in [Procs -> 0..Latency] /\ down \in Nat
    BY ClockAssumption, MarginIsNat DEF PacedInit
<1> QED BY <1>1, <1>2 DEF TimersOK

LEMMA CallTimers ==
    ASSUME DelaysGrow, LoopbackTypeOK, TimersOK, NEW p \in Procs, PacedCall(p)
    PROVE  TimersOK'
<1> USE ClockAssumption, MarginIsNat DEF TimersOK, timers
<1>1. (busy \in [Procs -> 0..Latency])' BY DEF PacedCall
<1>2. CASE PacedBegin(p) BY <1>1, <1>2 DEF PacedBegin
<1>3. CASE PacedLocal(p) \/ PacedAnswer(p) \/ PacedRenewLook(p)
    BY <1>1, <1>3 DEF PacedLocal, PacedAnswer, PacedRenewLook
<1>4. CASE PacedLogin(p)
    <2>1. (life \in [Tokens -> 0..TTL])' BY <1>4 DEF PacedLogin
    <2> QED BY <1>1, <1>4, <2>1 DEF PacedLogin
<1>5. CASE PacedRecord(p)
    <2>1. wait' \in 0..MaxDelay BY <1>5, RecordedDelay
    <2> QED BY <1>1, <1>5, <2>1 DEF PacedRecord
<1>6. CASE PacedInstall(p)
    <2>1. missed' \in BOOLEAN BY <1>6, Zenon DEF PacedInstall
    <2> QED BY <1>1, <1>6, <2>1 DEF PacedInstall
<1>7. CASE PacedDiscard(p)
    <2>1. missed' \in BOOLEAN BY <1>7, Zenon DEF PacedDiscard
    <2> QED BY <1>1, <1>7, <2>1 DEF PacedDiscard
<1>8. CASE PacedRenew(p)
    <2>1. (life \in [Tokens -> 0..TTL])' BY <1>8 DEF PacedRenew
    <2> QED BY <1>1, <1>8, <2>1 DEF PacedRenew
<1>9. CASE PacedRenewStore(p) BY <1>1, <1>9 DEF PacedRenewStore
<1> QED BY <1>2, <1>3, <1>4, <1>5, <1>6, <1>7, <1>8, <1>9 DEF PacedCall

LEMMA ElapseTimers == ASSUME TimersOK, Elapse PROVE TimersOK'
<1> USE ClockAssumption, MarginIsNat DEF TimersOK
<1>1. wait' \in 0..MaxDelay BY DEF Elapse, Less
<1>2. age' \in 0..Margin BY DEF Elapse
<1>3. (life \in [Tokens -> 0..TTL])'
    <2>1. \A t \in Tokens : Less(life[t]) \in 0..TTL BY DEF Less
    <2> QED BY <2>1 DEF Elapse
<1>4. sinceTick' \in 0..Period BY DEF Elapse
<1>5. (busy \in [Procs -> 0..Latency])' BY DEF Elapse
<1>6. down' \in Nat BY DEF Elapse
<1> QED BY <1>1, <1>2, <1>3, <1>4, <1>5, <1>6 DEF Elapse

LEMMA TimersStep ==
    ASSUME DelaysGrow, LoopbackTypeOK, TimersOK, [PacedNext]_pacedvars
    PROVE  TimersOK'
<1> USE ClockAssumption, MarginIsNat
<1>1. CASE \E p \in Procs : PacedCall(p) BY <1>1, CallTimers
<1>2. CASE Elapse BY <1>2, ElapseTimers
<1>3. CASE IdleTick BY <1>3 DEF IdleTick, TimersOK
<1>4. CASE Expire \/ (ConfigWrite /\ UNCHANGED <<lvars, timers, busy>>) \/ UNCHANGED pacedvars
    BY <1>4 DEF Expire, timers, pacedvars, TimersOK
<1>5. CASE PacedRestart
    <2>1. missed' \in BOOLEAN BY <1>5, Zenon DEF PacedRestart
    <2> QED BY <1>5, <2>1 DEF PacedRestart, TimersOK
<1>6. CASE OutageTurns BY <1>6 DEF OutageTurns, TimersOK
<1> QED BY <1>1, <1>2, <1>3, <1>4, <1>5, <1>6 DEF PacedNext

\* The timers keep within the bounds the code sets them: the wait within the cap
\* of the backoff, the schedule within the margin, a token's life within its TTL.
THEOREM PacedTypeCorrect == ASSUME DelaysGrow PROVE PacedSpec => []PacedTypeOK
<1>1. PacedInit => LoopbackTypeOK /\ TimersOK
    BY LoopbackTypeInit, TimersInit DEF PacedInit
<1>2. LoopbackTypeOK /\ TimersOK /\ [PacedNext]_pacedvars => LoopbackTypeOK' /\ TimersOK'
    BY PacedStepIsLoopbacks, LoopbackTypeStep, TimersStep
<1>3. LoopbackTypeOK /\ TimersOK => PacedTypeOK BY DEF TimersOK, PacedTypeOK
<1> QED BY <1>1, <1>2, <1>3, PTL DEF PacedSpec

-----------------------------------------------------------------------------
(* Backoff.  The wait never exceeds the delay of the failures on record, so  *)
(* that a failure more, whichever attempt it ends, cannot shorten it.        *)

WaitInv ==
    /\ failures = 0 => wait = 0
    /\ failures > 0 => wait <= Delay(failures)

LEMMA WaitStep ==
    ASSUME DelaysGrow, LoopbackTypeOK, TimersOK, WaitInv, [PacedNext]_pacedvars
    PROVE  /\ WaitInv'
           /\ wait' < wait => failures' = 0 \/ sinceTick' = sinceTick + 1
<1>1. failures \in 0..MaxFailures /\ wait \in 0..MaxDelay
    BY DEF LoopbackTypeOK, ClientTypeOK, TimersOK
<1>2. CASE UNCHANGED <<wait, failures>> BY <1>1, <1>2 DEF WaitInv
<1>3. ASSUME NEW p \in Procs, PacedRecord(p)
      PROVE  WaitInv' /\ (wait' < wait => failures' = 0)
    <2>1. CASE failures' = 0 /\ wait' = 0 BY <2>1 DEF WaitInv
    <2>2. CASE /\ failures' \in 1..MaxFailures
               /\ failures' = failures \/ failures' = failures + 1
               /\ wait' = Delay(failures') /\ wait' \in 1..MaxDelay
        <3>1. WaitInv' BY <2>2 DEF WaitInv
        <3>2. CASE failures = 0 BY <1>1, <2>2, <3>1, <3>2 DEF WaitInv
        <3>3. CASE failures > 0
            <4>1. wait <= Delay(failures) BY <3>3 DEF WaitInv
            <4>2. failures \in 1..MaxFailures BY <1>1, <3>3
            <4>3. Delay(failures) \in 1..MaxDelay BY <4>2 DEF DelaysGrow
            <4>4. CASE failures' = failures
                <5>1. wait' = Delay(failures) BY <2>2, <4>4
                <5> QED BY <1>1, <3>1, <4>1, <4>3, <5>1, ClockAssumption
            <4>5. CASE failures' = failures + 1
                <5>1. failures < MaxFailures BY <2>2, <4>2, <4>5, MaxFailuresAssumption
                <5>2. Delay(failures) <= Delay(failures + 1) BY <4>2, <5>1 DEF DelaysGrow
                <5> QED BY <1>1, <2>2, <3>1, <4>1, <4>3, <4>5, <5>2
            <4> QED BY <2>2, <4>4, <4>5
        <3> QED BY <1>1, <3>2, <3>3
    <2> QED BY <1>3, <2>1, <2>2, RecordedDelay
<1>4. CASE Elapse
    <2>1. failures' = failures BY <1>4 DEF Elapse, BackoffElapses, vars
    <2>2. wait' = Less(wait) /\ sinceTick' = sinceTick + 1 BY <1>4 DEF Elapse
    <2>3. failures > 0 => Delay(failures) \in 1..MaxDelay BY <1>1 DEF DelaysGrow
    <2> QED BY <1>1, <2>1, <2>2, <2>3 DEF WaitInv, Less
<1>5. CASE PacedRestart BY <1>5 DEF PacedRestart, LoopbackReset, WaitInv
<1>6. ASSUME NEW p \in Procs, PacedCall(p), ~PacedRecord(p) PROVE UNCHANGED <<wait, failures>>
    BY <1>6 DEF PacedCall, PacedBegin, PacedLocal, PacedLogin, PacedInstall, PacedAnswer,
           PacedDiscard, PacedRenewLook, PacedRenew, PacedRenewStore, timers, shared, gvars,
           Request, TickStart, EnsureLook, EnsureGate, EnsureLoginOK, EnsureLoginFails,
           EnsureInstall, GiveUp, UseOK, UseRefused, UseFails, UseRecycle, Discard,
           RenewLook, RenewOK, RenewRefused, RenewFails, RenewStore
<1>7. CASE IdleTick \/ Expire \/ (ConfigWrite /\ UNCHANGED <<lvars, timers, busy>>)
               \/ OutageTurns \/ UNCHANGED pacedvars
    BY <1>2, <1>7 DEF IdleTick, Expire, TokenDies, OutageTurns, pacedvars, vars, lvars,
                      timers, gvars
<1> QED BY <1>2, <1>3, <1>4, <1>5, <1>6, <1>7 DEF PacedNext

\* Whatever attempts overlap and whichever ends last, the next login is allowed
\* earlier than the governor last said only after a success or a restart.
THEOREM BackoffHeldInFull == ASSUME DelaysGrow PROVE PacedSpec => HeldBackInFull
<1>1. PacedInit => LoopbackTypeOK /\ TimersOK /\ WaitInv
    BY LoopbackTypeInit, TimersInit DEF PacedInit, LoopbackInit, WaitInv
<1>2. LoopbackTypeOK /\ TimersOK /\ WaitInv /\ [PacedNext]_pacedvars
          => /\ LoopbackTypeOK' /\ TimersOK' /\ WaitInv'
             /\ [wait' < wait => failures' = 0 \/ sinceTick' = sinceTick + 1]_pacedvars
    BY PacedStepIsLoopbacks, LoopbackTypeStep, TimersStep, WaitStep
<1> QED BY <1>1, <1>2, PTL DEF PacedSpec, HeldBackInFull

-----------------------------------------------------------------------------
(* Recovery.  While the governor holds logins back, the wait that is left    *)
(* bounds how long the engine has been without a client; once it does not,   *)
(* a tick comes within the period, and the attempt it makes ends in a client *)
(* or, OpenBao answering, not at all.                                        *)

\* How long the engine can be down before it may log in.
HeldUntil == MaxDelay + Latency

\* Where a call is about to get a client, by a login or by finding one.
Attempting == {"look", "gate", "login", "granted", "install"}

\* There is nothing to recover from.
HasClientOrNoNeed == client # NoTok \/ config = NoCfg \/ outage => down = 0

\* Only an outage refuses a login, so the engine was not yet down when it did.
RefusedWithinCall == \A p \in Procs : pc[p] = "refusedlogin" => down <= busy[p]

HeldBackWithinCap == wait > 0 => down + wait <= HeldUntil

TickOrAttempt ==
    wait = 0 => \/ down < HeldUntil + sinceTick
                \/ \E p \in Procs : /\ pc[p] \in Attempting
                                    /\ down < HeldUntil + Period + busy[p]

RecoveryInv ==
    /\ blocked <=> wait > 0
    /\ HasClientOrNoNeed
    /\ RefusedWithinCall
    /\ HeldBackWithinCap
    /\ TickOrAttempt

RecoveryTypes ==
    /\ wait \in Nat /\ down \in Nat /\ sinceTick \in 0..Period
    /\ busy \in [Procs -> 0..Latency]
    /\ HeldUntil \in Nat /\ Period \in Nat /\ Latency \in Nat
    /\ MaxDelay \in Nat /\ MaxDelay > 0 /\ HeldUntil = MaxDelay + Latency

LEMMA RecoveryTyped == TimersOK => RecoveryTypes
BY ClockAssumption DEF TimersOK, RecoveryTypes, HeldUntil

LEMMA RecoveryCall ==
    ASSUME DelaysGrow, LoopbackTypeOK, TimersOK, RecoveryInv, NEW p \in Procs, PacedCall(p)
    PROVE  RecoveryInv'
<1>1. RecoveryTypes BY RecoveryTyped
<1>2. pc \in [Procs -> TickerPCs] BY DEF LoopbackTypeOK
<1>3. busy' = [busy EXCEPT ![p] = IF pc'[p] = "idle" THEN 0 ELSE @] BY DEF PacedCall
<1> HIDE DEF HeldUntil
<1> USE <1>1, <1>2, <1>3
        DEF RecoveryTypes, RecoveryInv, HasClientOrNoNeed, RefusedWithinCall,
        HeldBackWithinCap, TickOrAttempt, Attempting, Goto, Return, Leave, shared, gvars,
        clvars, cvars, timers
<1>4. CASE PacedBegin(p)
    <2>1. CASE Request(p) BY <1>4, <2>1 DEF PacedBegin, Request
    <2>2. CASE TickStart(p) BY <1>4, <2>2 DEF PacedBegin, TickStart
    <2> QED BY <1>4, <2>1, <2>2 DEF PacedBegin
<1>5. CASE PacedLocal(p)
    <2>1. CASE EnsureLook(p) BY <1>5, <2>1 DEF PacedLocal, EnsureLook
    <2>2. CASE EnsureGate(p) BY <1>5, <2>2 DEF PacedLocal, EnsureGate
    <2>3. CASE UseFails(p) \/ GiveUp(p) BY <1>5, <2>3 DEF PacedLocal, UseFails, GiveUp
    <2> QED BY <1>5, <2>1, <2>2, <2>3 DEF PacedLocal
<1>6. CASE PacedLogin(p)
    <2>1. CASE EnsureLoginOK(p) BY <1>6, <2>1 DEF PacedLogin, EnsureLoginOK
    <2>2. CASE outage /\ EnsureLoginFails(p) BY <1>6, <2>2 DEF PacedLogin, EnsureLoginFails
    <2> QED BY <1>6, <2>1, <2>2 DEF PacedLogin
<1>7. CASE PacedRecord(p)
    <2>1. CASE pc[p] = "granted" BY <1>7, <2>1 DEF PacedRecord, EnsureRecord
    <2>2. CASE pc[p] # "granted"
        <3>1. wait' \in 1..MaxDelay
            <4>1. failures' > 0
                BY <1>7, <2>2, MaxFailuresAssumption
                   DEF PacedRecord, EnsureRecord, LoopbackTypeOK, ClientTypeOK
            <4> QED BY <1>7, <4>1, RecordedDelay
        <3> QED BY <1>7, <2>2, <3>1 DEF PacedRecord, EnsureRecord
    <2> QED BY <2>1, <2>2
<1>8. CASE PacedInstall(p) BY <1>8 DEF PacedInstall, EnsureInstall
<1>9. CASE PacedAnswer(p)
    BY <1>9 DEF PacedAnswer, UseOK, UseRefused, UseRecycle, RenewRefused
<1>10. CASE PacedDiscard(p) BY <1>10 DEF PacedDiscard, Discard
<1>11. CASE PacedRenewLook(p) BY <1>11 DEF PacedRenewLook, RenewLook
<1>12. CASE PacedRenew(p) BY <1>12 DEF PacedRenew, RenewOK, RenewFails
<1>13. CASE PacedRenewStore(p) BY <1>13 DEF PacedRenewStore, RenewStore
<1> QED BY <1>4, <1>5, <1>6, <1>7, <1>8, <1>9, <1>10, <1>11, <1>12, <1>13 DEF PacedCall

LEMMA RecoveryElapse == ASSUME LoopbackTypeOK, TimersOK, RecoveryInv, Elapse PROVE RecoveryInv'
<1>1. RecoveryTypes BY RecoveryTyped
<1>2. pc \in [Procs -> TickerPCs] BY DEF LoopbackTypeOK
<1>3. UNCHANGED <<client, config, pc>> /\ (wait' > 0 => UNCHANGED blocked)
    BY DEF Elapse, BackoffElapses, vars, cvars, clvars
<1>4. wait' = Less(wait) /\ sinceTick' = sinceTick + 1 /\ UNCHANGED outage BY DEF Elapse
<1>5. down' = IF client = NoTok /\ config # NoCfg /\ ~outage THEN down + 1 ELSE 0 BY DEF Elapse
<1>6. busy' = [p \in Procs |-> IF pc[p] = "idle" THEN 0 ELSE busy[p] + 1] BY DEF Elapse
<1> HIDE DEF HeldUntil
<1> USE <1>1, <1>2, <1>3, <1>4, <1>5, <1>6 DEF RecoveryTypes, RecoveryInv
<1>7. (blocked <=> wait > 0)' BY DEF Elapse, Less, BackoffElapses, vars
<1>8. HasClientOrNoNeed' BY DEF HasClientOrNoNeed
<1>9. RefusedWithinCall' BY DEF RefusedWithinCall
<1>10. HeldBackWithinCap' BY DEF HeldBackWithinCap, Less
<1>11. TickOrAttempt' BY DEF TickOrAttempt, Attempting, HeldBackWithinCap, Less
<1> QED BY <1>7, <1>8, <1>9, <1>10, <1>11

LEMMA RecoveryStep ==
    ASSUME DelaysGrow, LoopbackTypeOK, TimersOK, RecoveryInv, [PacedNext]_pacedvars
    PROVE  RecoveryInv'
<1>1. RecoveryTypes BY RecoveryTyped
<1> HIDE DEF HeldUntil
<1> USE <1>1 DEF RecoveryTypes, RecoveryInv, HasClientOrNoNeed, RefusedWithinCall,
        HeldBackWithinCap, TickOrAttempt
<1>2. CASE \E p \in Procs : PacedCall(p) BY <1>2, RecoveryCall
<1>3. CASE Elapse BY <1>3, RecoveryElapse
<1>4. CASE IdleTick BY <1>4 DEF IdleTick, vars
<1>5. CASE Expire BY <1>5 DEF Expire, TokenDies, timers, cvars, clvars, gvars
<1>6. CASE ConfigWrite /\ UNCHANGED <<lvars, timers, busy>> 
    <2>1. config' = NoCfg => config = NoCfg BY <1>6 DEF ConfigWrite, ConfigPut, ConfigCache
    <2> QED BY <1>6, <2>1 DEF lvars, timers
<1>7. CASE PacedRestart BY <1>7 DEF PacedRestart, LoopbackReset
<1>8. CASE OutageTurns BY <1>8 DEF OutageTurns, vars
<1>9. CASE UNCHANGED pacedvars BY <1>9 DEF pacedvars, vars, timers
<1> QED BY <1>2, <1>3, <1>4, <1>5, <1>6, <1>7, <1>8, <1>9 DEF PacedNext

\* With OpenBao answering, a configured engine has its client back in bounded
\* time, whoever asks for one and whatever was refused, discarded or restarted.
THEOREM RecoveryBounded == ASSUME DelaysGrow PROVE PacedSpec => []RecoversInTime
<1> DEFINE Inv == LoopbackTypeOK /\ TimersOK /\ RecoveryInv
<1>1. PacedInit => Inv
    <2> SUFFICES ASSUME PacedInit PROVE RecoveryInv BY LoopbackTypeInit, TimersInit DEF PacedInit
    <2>1. HeldUntil \in Nat /\ HeldUntil > 0 BY ClockAssumption DEF HeldUntil
    <2> HIDE DEF HeldUntil
    <2> QED
        BY <2>1 DEF PacedInit, LoopbackInit, RecoveryInv, HasClientOrNoNeed,
           RefusedWithinCall, HeldBackWithinCap, TickOrAttempt
<1>2. Inv /\ [PacedNext]_pacedvars => Inv'
    BY PacedStepIsLoopbacks, LoopbackTypeStep, TimersStep, RecoveryStep
<1>3. Inv => RecoversInTime
    <2> SUFFICES ASSUME TimersOK, RecoveryInv PROVE RecoversInTime OBVIOUS
    <2>1. RecoveryTypes BY RecoveryTyped
    <2> QED
        BY <2>1 DEF RecoveryTypes, RecoveryInv, HeldBackWithinCap, TickOrAttempt,
           RecoversInTime
<1> QED BY <1>1, <1>2, <1>3, PTL DEF PacedSpec

-----------------------------------------------------------------------------
(* Renewal.  A late renewal may put the schedule of one token over another's *)
(* life, but only of a token granted while that renewal was under way: the   *)
(* age the schedule shows is never more than a call's length short of the    *)
(* age of the current token.  Once the margin is reached the tick that the   *)
(* period brings finds renewal due, before the rest of the TTL is over.      *)

\* Where a call is between deciding to log in and installing the client.
LoggingIn == {"gate", "login", "granted", "install"}
Renewing == {"renew", "renewed"}

\* What is left of a TTL, at least, when the schedule shows the margin.
Reserve == TTL - Latency - Margin + 1

NothingUnconfigured ==
    config = NoCfg => client = NoTok /\ \A p \in Procs : pc[p] \notin LoggingIn

ClientIsScheduled == client # NoTok => sched # NoTok

RenewerHolds == \A k \in Procs : pc[k] \in Renewing => k \in Tickers /\ held[k] # NoTok

\* The client was replaced while p was renewing, or while p was logging in.
ReplacedInCall ==
    \A p \in Procs :
        \/ pc[p] \in Renewing /\ held[p] # client
        \/ pc[p] \in LoggingIn /\ client # NoTok
        => age <= busy[p]

\* A token that was granted or renewed within a call.
GrantedInCall ==
    \A p \in Procs : pc[p] \in {"granted", "install", "renewed"} /\ held[p] \in alive
        => life[held[p]] >= TTL - busy[p]

\* A token that was granted while k was renewing.
GrantedMeanwhile ==
    \A k, p \in Procs :
        pc[k] \in Renewing /\ pc[p] \in {"granted", "install"} /\ held[p] \in alive
        => life[held[p]] >= TTL - busy[k]

InstalledMeanwhile ==
    \A k \in Procs : pc[k] \in Renewing /\ held[k] # client /\ client \in alive
        => life[client] >= TTL - busy[k]

\* Up to the margin the schedule tells the age of the client's grant, to within a
\* call.
ScheduleTellsAge ==
    client # NoTok /\ client \in alive /\ age < Margin => life[client] + age >= TTL - Latency

\* A tick that will renew the client, or do away with it.
OnDuty(k) ==
    \/ pc[k] \in {"look", "ready", "discard"}
    \/ pc[k] = "renew" /\ held[k] = client

TickInReserve ==
    client # NoTok /\ client \in alive /\ age = Margin /\ ~missed =>
        \/ life[client] + sinceTick >= Reserve
        \/ \E k \in Tickers : OnDuty(k) /\ life[client] + Period + busy[k] >= Reserve

RenewalInv ==
    /\ NothingUnconfigured
    /\ ClientIsScheduled
    /\ RenewerHolds
    /\ ReplacedInCall
    /\ GrantedInCall
    /\ GrantedMeanwhile
    /\ InstalledMeanwhile
    /\ ScheduleTellsAge
    /\ TickInReserve

RenewalTypes ==
    /\ LoopbackTypeOK
    /\ age \in 0..Margin
    /\ life \in [Tokens -> 0..TTL]
    /\ sinceTick \in 0..Period
    /\ busy \in [Procs -> 0..Latency]
    /\ Margin \in Nat /\ TTL \in Nat /\ Period \in Nat /\ Latency \in Nat
    /\ Reserve \in Nat /\ Reserve = TTL - Latency - Margin + 1
    /\ Reserve > Period + Latency /\ Margin > Latency

LEMMA RenewalTyped == MarginCoversTick /\ LoopbackTypeOK /\ TimersOK => RenewalTypes
<1> SUFFICES ASSUME MarginCoversTick, LoopbackTypeOK, TimersOK PROVE RenewalTypes OBVIOUS
<1>1. 3 * Margin <= 2 * TTL + 2 /\ 3 * Margin >= 2 * TTL BY ClockAssumption DEF Margin
<1>2. Margin \in Nat BY MarginIsNat
<1> HIDE DEF Margin
<1> QED BY <1>1, <1>2, ClockAssumption DEF MarginCoversTick, TimersOK, RenewalTypes, Reserve

LEMMA RenewalCall ==
    ASSUME RenewalTypes, RenewalInv, NEW p \in Procs, PacedCall(p)
    PROVE  RenewalInv'
<1>1. busy' = [busy EXCEPT ![p] = IF pc'[p] = "idle" THEN 0 ELSE @] BY DEF PacedCall
<1>2. Tickers \subseteq Procs /\ \A q \in Readers : q \notin Tickers BY ProcsAssumption DEF Procs
<1> HIDE DEF Margin, Reserve
<1> USE <1>1, <1>2, NoTokAssumption
        DEF RenewalTypes, LoopbackTypeOK, ClientTypeOK, RenewalInv, NothingUnconfigured,
        ClientIsScheduled, RenewerHolds, ReplacedInCall, GrantedInCall, GrantedMeanwhile,
        InstalledMeanwhile, ScheduleTellsAge, TickInReserve, OnDuty, LoggingIn, Renewing,
        Goto, Hold, Return, Leave, shared, gvars, clvars, cvars, timers
<1>3. CASE PacedBegin(p)
    <2>1. CASE Request(p) /\ UNCHANGED sinceTick BY <1>3, <2>1 DEF PacedBegin, Request
    <2>2. CASE TickStart(p) /\ sinceTick' = 0 BY <1>3, <2>2 DEF PacedBegin, TickStart
    <2> QED BY <1>3, <2>1, <2>2 DEF PacedBegin
<1>4. CASE PacedLocal(p)
    <2>1. CASE EnsureLook(p) BY <1>4, <2>1 DEF PacedLocal, EnsureLook
    <2>2. CASE EnsureGate(p) BY <1>4, <2>2 DEF PacedLocal, EnsureGate
    <2>3. CASE UseFails(p) \/ GiveUp(p) BY <1>4, <2>3 DEF PacedLocal, UseFails, GiveUp
    <2> QED BY <1>4, <2>1, <2>2, <2>3 DEF PacedLocal
<1>5. CASE PacedLogin(p)
    <2>1. CASE EnsureLoginOK(p)
        <3>1. PICK t \in Tokens :
                 /\ Fresh(t) /\ alive' = alive \cup {t} /\ held' = [held EXCEPT ![p] = t]
                 /\ pc[p] = "login" /\ pc' = [pc EXCEPT ![p] = "granted"]
                 /\ life' = [life EXCEPT ![t] = TTL]
            BY <1>5, <2>1 DEF PacedLogin, EnsureLoginOK, EnsureLoginFails
        <3>2. t # client /\ \A q \in Procs : held[q] # t BY <3>1 DEF Fresh
        <3>3. UNCHANGED <<config, client, sched, age, sinceTick, missed, busy>>
            BY <1>5, <2>1, <3>1 DEF PacedLogin, EnsureLoginOK
        <3>4. \A q \in Procs :
                q # p => /\ held'[q] = held[q] /\ pc'[q] = pc[q]
                         /\ life'[held[q]] = life[held[q]]
                         /\ held[q] \in alive' <=> held[q] \in alive
            BY <3>1, <3>2
        <3>5. life'[client] = life[client] /\ (client \in alive' <=> client \in alive)
            BY <3>1, <3>2
        <3>6. (NothingUnconfigured /\ ClientIsScheduled /\ RenewerHolds)' BY <3>1, <3>3
        <3>7. ReplacedInCall' BY <3>1, <3>3
        <3>8. GrantedInCall' BY <3>1, <3>3, <3>4
        <3>9. GrantedMeanwhile' BY <3>1, <3>3, <3>4
        <3>10. (InstalledMeanwhile /\ ScheduleTellsAge)' BY <3>1, <3>3, <3>5
        <3>11. TickInReserve' BY <3>1, <3>3, <3>5
        <3> QED BY <3>6, <3>7, <3>8, <3>9, <3>10, <3>11
    <2>2. CASE outage /\ EnsureLoginFails(p) BY <1>5, <2>2 DEF PacedLogin, EnsureLoginFails
    <2> QED BY <1>5, <2>1, <2>2 DEF PacedLogin
<1>6. CASE PacedRecord(p)
    BY <1>6 DEF PacedRecord, EnsureRecord
<1>7. CASE PacedInstall(p) BY <1>7 DEF PacedInstall, EnsureInstall
<1>8. CASE PacedAnswer(p)
    BY <1>8 DEF PacedAnswer, UseOK, UseRefused, UseRecycle, RenewRefused
<1>9. CASE PacedDiscard(p) BY <1>9 DEF PacedDiscard, Discard
<1>10. CASE PacedRenewLook(p) BY <1>10 DEF PacedRenewLook, RenewLook, Due
<1>11. CASE PacedRenew(p)
    <2>1. CASE RenewOK(p) /\ life' = [life EXCEPT ![held[p]] = TTL] /\ UNCHANGED missed
        <3>1. UNCHANGED <<config, client, sched, alive, held, age, sinceTick, missed, busy>>
            BY <1>11, <2>1 DEF PacedRenew, RenewOK
        <3>2. held[p] \in Tokens /\ pc[p] = "renew" /\ pc' = [pc EXCEPT ![p] = "renewed"]
            BY <2>1 DEF RenewOK
        <3>3. \A t \in Tokens : life'[t] >= life[t] BY <2>1, <3>2
        <3>4. life'[held[p]] = TTL BY <2>1, <3>2
        <3>5. (NothingUnconfigured /\ ClientIsScheduled /\ RenewerHolds)' BY <3>1, <3>2
        <3>6. ReplacedInCall' BY <3>1, <3>2
        <3>7. GrantedInCall'
            <4> SUFFICES ASSUME NEW q \in Procs, pc'[q] \in {"granted", "install", "renewed"},
                                held[q] \in alive
                         PROVE  life'[held[q]] >= TTL - busy[q]
                BY <3>1
            <4>1. CASE q = p BY <3>4, <4>1
            <4>2. CASE q # p
                <5>1. life[held[q]] >= TTL - busy[q] BY <3>2, <4>2
                <5>2. life'[held[q]] >= life[held[q]] /\ life'[held[q]] \in Int BY <2>1, <3>3
                <5> QED BY <5>1, <5>2
            <4> QED BY <4>1, <4>2
        <3>8. (GrantedMeanwhile /\ InstalledMeanwhile /\ ScheduleTellsAge)'
            BY <2>1, <3>1, <3>2, <3>3
        <3>9. TickInReserve' BY <2>1, <3>1, <3>2, <3>3, <3>4
        <3> QED BY <3>5, <3>6, <3>7, <3>8, <3>9
    <2>2. CASE RenewFails(p) /\ missed' = (client # NoTok) /\ UNCHANGED life
        <3>1. client # NoTok => missed' BY <2>2, Zenon
        <3>2. UNCHANGED <<config, client, sched, alive, life, age, sinceTick>>
            BY <1>11, <2>2 DEF PacedRenew, RenewFails
        <3> QED BY <2>2, <3>1, <3>2 DEF RenewFails
    <2> QED BY <1>11, <2>1, <2>2 DEF PacedRenew
<1>12. CASE PacedRenewStore(p) BY <1>12 DEF PacedRenewStore, RenewStore
<1> QED BY <1>3, <1>4, <1>5, <1>6, <1>7, <1>8, <1>9, <1>10, <1>11, <1>12 DEF PacedCall

LEMMA RenewalElapse == ASSUME RenewalTypes, RenewalInv, Elapse PROVE RenewalInv'
<1>1. UNCHANGED <<client, config, sched, alive, pc, held, missed>>
    BY DEF Elapse, BackoffElapses, vars, cvars, clvars
<1>2. \A p \in Procs : busy'[p] = IF pc[p] = "idle" THEN 0 ELSE busy[p] + 1 BY DEF Elapse
<1>3. \A t \in alive : ~Fresh(t) => life'[t] = life[t] - 1
    BY DEF Elapse, Less, RenewalTypes, LoopbackTypeOK, ClientTypeOK
<1>4. client \in alive => life'[client] = life[client] - 1 BY <1>3 DEF Fresh
<1>5. \A p \in Procs : held[p] \in alive => life'[held[p]] = life[held[p]] - 1 BY <1>3 DEF Fresh
<1>6. age' = IF sched # NoTok /\ age < Margin THEN age + 1 ELSE age BY DEF Elapse
<1>7. sinceTick' = sinceTick + 1 BY DEF Elapse
<1>8. Tickers \subseteq Procs BY DEF Procs
<1> HIDE DEF Margin, Reserve
<1> USE <1>1, NoTokAssumption
        DEF RenewalTypes, LoopbackTypeOK, ClientTypeOK, RenewalInv, LoggingIn, Renewing
<1>9. (NothingUnconfigured /\ ClientIsScheduled /\ RenewerHolds)'
    BY DEF NothingUnconfigured, ClientIsScheduled, RenewerHolds
<1>10. ReplacedInCall' BY <1>2, <1>6 DEF ReplacedInCall
<1>11. GrantedInCall' BY <1>2, <1>5 DEF GrantedInCall
<1>12. GrantedMeanwhile' BY <1>2, <1>5 DEF GrantedMeanwhile
<1>13. InstalledMeanwhile' BY <1>2, <1>4 DEF InstalledMeanwhile
<1>14. ScheduleTellsAge' BY <1>4, <1>6 DEF ScheduleTellsAge, ClientIsScheduled
<1>15. TickInReserve'
    BY <1>2, <1>4, <1>6, <1>7, <1>8 DEF TickInReserve, ScheduleTellsAge, ClientIsScheduled, OnDuty
<1> QED BY <1>9, <1>10, <1>11, <1>12, <1>13, <1>14, <1>15

LEMMA RenewalStep ==
    ASSUME RenewalTypes, RenewalInv, [PacedNext]_pacedvars
    PROVE  RenewalInv'
<1> HIDE DEF Margin, Reserve
<1> USE DEF RenewalInv, NothingUnconfigured, ClientIsScheduled, RenewerHolds, ReplacedInCall,
        GrantedInCall, GrantedMeanwhile, InstalledMeanwhile, ScheduleTellsAge, TickInReserve,
        OnDuty
<1>1. CASE \E p \in Procs : PacedCall(p) BY <1>1, RenewalCall
<1>2. CASE Elapse BY <1>2, RenewalElapse
<1>3. CASE IdleTick BY <1>3 DEF IdleTick, vars
<1>4. CASE Expire BY <1>4 DEF Expire, TokenDies, timers, cvars, clvars, gvars
<1>5. CASE ConfigWrite /\ UNCHANGED <<lvars, timers, busy>>
    <2>1. config' = NoCfg => config = NoCfg BY <1>5 DEF ConfigWrite, ConfigPut, ConfigCache
    <2> QED BY <1>5, <2>1 DEF lvars, timers
<1>6. CASE PacedRestart BY <1>6 DEF PacedRestart, LoopbackReset, LoggingIn, Renewing
<1>7. CASE OutageTurns BY <1>7 DEF OutageTurns, vars
<1>8. CASE UNCHANGED pacedvars BY <1>8 DEF pacedvars, vars, timers
<1> QED BY <1>1, <1>2, <1>3, <1>4, <1>5, <1>6, <1>7, <1>8 DEF PacedNext

\* Where the TTL leaves the ticks room, the current client's token is renewed
\* before it runs out, also when renewals end late and write the schedule of a
\* token that is no longer the current one.
THEOREM RenewalInTime ==
    ASSUME DelaysGrow, MarginCoversTick PROVE PacedSpec => []RenewedAhead
<1> DEFINE Inv == LoopbackTypeOK /\ TimersOK /\ RenewalInv
<1>1. PacedInit => Inv
    <2> SUFFICES ASSUME PacedInit PROVE RenewalInv BY LoopbackTypeInit, TimersInit DEF PacedInit
    <2> QED
        BY DEF PacedInit, LoopbackInit, RenewalInv, NothingUnconfigured, ClientIsScheduled,
               RenewerHolds, ReplacedInCall, GrantedInCall, GrantedMeanwhile,
               InstalledMeanwhile, ScheduleTellsAge, TickInReserve, LoggingIn, Renewing
<1>2. Inv /\ [PacedNext]_pacedvars => Inv'
    BY PacedStepIsLoopbacks, LoopbackTypeStep, TimersStep, RenewalTyped, RenewalStep
<1>3. Inv => RenewedAhead
    <2> SUFFICES ASSUME LoopbackTypeOK, TimersOK, RenewalInv,
                        client # NoTok, client \in alive, ~missed
                 PROVE  life[client] > 0
        BY DEF RenewedAhead
    <2>1. RenewalTypes BY RenewalTyped
    <2>2. life[client] \in 0..TTL BY DEF TimersOK, LoopbackTypeOK, ClientTypeOK
    <2> HIDE DEF Margin, Reserve
    <2>3. CASE age < Margin
        BY <2>1, <2>2, <2>3 DEF RenewalTypes, RenewalInv, ScheduleTellsAge
    <2>4. CASE age = Margin
        <3>1. CASE life[client] + sinceTick >= Reserve BY <2>1, <2>2, <3>1 DEF RenewalTypes
        <3>2. ASSUME NEW k \in Tickers, life[client] + Period + busy[k] >= Reserve
              PROVE  life[client] > 0
            <4>1. busy[k] \in 0..Latency BY DEF TimersOK, Procs
            <4> QED BY <2>1, <2>2, <3>2, <4>1 DEF RenewalTypes
        <3> QED BY <2>4, <3>1, <3>2 DEF RenewalInv, TickInReserve
    <2> QED BY <2>1, <2>3, <2>4 DEF RenewalTypes
<1> QED BY <1>1, <1>2, <1>3, PTL DEF PacedSpec
=============================================================================
