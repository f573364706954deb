---------------------------- MODULE PacedLoopback ----------------------------
(***************************************************************************)
(* Module Loopback with a clock: how long the governor holds logins back,  *)
(* when a tick renews the token, and how long tokens live at OpenBao       *)
(* (src/backend/governor.go, backend.go).                                  *)
(*                                                                         *)
(* Every step is one of Loopback's, made at a moment its timers allow, or  *)
(* the clock advancing by a unit.  Timestamps are kept as distances to the *)
(* present: `wait` is nextAllowedAt - now and `age` is now -               *)
(* tokenRenewedAt.  The life of a token that nothing in the engine refers  *)
(* to any more is not followed: it is over when the clock advances.        *)
(***************************************************************************)
EXTENDS Loopback

CONSTANTS
    BaseDelay,      \* loopbackInitBackoffBase
    MaxDelay,       \* loopbackInitBackoffMax
    Period,         \* OpenBao calls periodic at least this often
    Latency,        \* a call, with the RPCs it makes, takes at most this long
    TTL             \* what a login and a renewal grant

ASSUME ClockAssumption ==
    /\ BaseDelay \in Nat \ {0} /\ MaxDelay \in Nat /\ BaseDelay <= MaxDelay
    /\ Period \in Nat /\ Latency \in Nat /\ Latency < Period
    /\ TTL \in Nat \ {0}

VARIABLES
    wait,           \* nextAllowedAt - now, 0 once it is reached
    age,            \* now - tokenRenewedAt, up to the margin; 0 without a schedule
    life,           \* OpenBao: how long it will still honour each token
    sinceTick,      \* since periodic was last called
    busy,           \* how long each call has been going on
    outage,         \* environment: OpenBao answers the engine with errors
    down,           \* history: since the engine could have a client and has none
    missed          \* history: a renewal failed since the client was installed

timers == <<wait, age, life, sinceTick, outage, down, missed>>
pacedvars == <<vars, timers, busy>>

-----------------------------------------------------------------------------
\* The loop of loopbackBackoffDelay.
Doubled[n \in 1..MaxFailures] ==
    IF n = 1 THEN BaseDelay
    ELSE IF Doubled[n - 1] < MaxDelay THEN 2 * Doubled[n - 1] ELSE Doubled[n - 1]

\* loopbackBackoffDelay.  From MaxFailures on, where the count of module
\* Loopback stays, it is to be the cap.
Delay(n) == IF Doubled[n] > MaxDelay THEN MaxDelay ELSE Doubled[n]

\* Mutant: the token is renewed when its TTL is over.
MarginWhole == TTL

\* loopbackRenewMarginFraction of the TTL, in whole units of the clock.
Margin == (2 * TTL + 2) \div 3

\* What the comment of loopbackBackoffDelay promises: the delays of later
\* failures are no shorter, and none is longer than the cap.
DelaysGrow ==
    \A n \in 1..MaxFailures :
        /\ Delay(n) \in 1..MaxDelay
        /\ n < MaxFailures => Delay(n) <= Delay(n + 1)

ASSUME CapAssumption == Delay(MaxFailures) = MaxDelay

\* renewLoopbackTokenIfDue renews: there are a client and a schedule, and two
\* thirds of the TTL have passed.
Due == client # NoTok /\ sched # NoTok /\ age = Margin

-----------------------------------------------------------------------------
PacedInit ==
    /\ LoopbackInit
    /\ wait = 0 /\ age = 0
    /\ life = [t \in Tokens |-> 0]
    /\ sinceTick = 0
    /\ busy = [p \in Procs |-> 0]
    /\ outage \in BOOLEAN
    /\ down = 0 /\ missed = FALSE

PacedBegin(p) ==
    /\ \/ Request(p) /\ UNCHANGED sinceTick
       \/ TickStart(p) /\ sinceTick' = 0
    /\ UNCHANGED <<wait, age, life, outage, down, missed>>

\* Mutant: an attempt that is refused puts the next one off.
PacedLocalPutsOff(p) ==
    /\ EnsureLook(p) \/ EnsureGate(p) \/ UseFails(p) \/ GiveUp(p)
    /\ wait' = IF pc[p] = "gate" /\ blocked THEN Delay(failures) ELSE wait
    /\ UNCHANGED <<age, life, sinceTick, outage, down, missed>>

\* The steps of a call that no timer takes part in.
PacedLocal(p) ==
    /\ EnsureLook(p) \/ EnsureGate(p) \/ UseFails(p) \/ GiveUp(p)
    /\ UNCHANGED timers

\* periodic returns at once when there is no configuration.
IdleTick ==
    /\ config = NoCfg
    /\ sinceTick' = 0
    /\ UNCHANGED <<vars, wait, age, life, busy, outage, down, missed>>

PacedLogin(p) ==
    /\ \/ /\ ~outage /\ EnsureLoginOK(p)
          /\ life' = [life EXCEPT ![held'[p]] = TTL]
       \/ outage /\ EnsureLoginFails(p) /\ UNCHANGED life
    /\ UNCHANGED <<wait, age, sinceTick, outage, down, missed>>

\* Mutant: the delay is added to what there is to wait already.
PacedRecordAdds(p) ==
    /\ EnsureRecord(p)
    /\ wait' = IF pc[p] = "granted" THEN 0 ELSE wait + Delay(failures')
    /\ UNCHANGED <<age, life, sinceTick, outage, down, missed>>

\* Mutant: a login that succeeds leaves nextAllowedAt alone.
PacedRecordKeeps(p) ==
    /\ EnsureRecord(p)
    /\ wait' = IF pc[p] = "granted" THEN wait ELSE Delay(failures')
    /\ UNCHANGED <<age, life, sinceTick, outage, down, missed>>

\* recordResult: the delay of the new failure count, from now on.
PacedRecord(p) ==
    /\ EnsureRecord(p)
    /\ wait' = IF pc[p] = "granted" THEN 0 ELSE Delay(failures')
    /\ UNCHANGED <<age, life, sinceTick, outage, down, missed>>

PacedInstall(p) ==
    /\ EnsureInstall(p)
    /\ age' = 0 /\ down' = 0 /\ missed' = FALSE
    /\ UNCHANGED <<wait, life, sinceTick, outage>>

\* OpenBao answers a reader, or refuses a tick, at once.
PacedAnswer(p) ==
    /\ ~outage
    /\ UseOK(p) \/ UseRefused(p) \/ UseRecycle(p) \/ RenewRefused(p)
    /\ UNCHANGED timers

PacedDiscard(p) ==
    /\ Discard(p)
    /\ age' = 0 /\ missed' = FALSE
    /\ UNCHANGED <<wait, life, sinceTick, outage, down>>

\* The tick renews if, and only if, renewal is due.
PacedRenewLook(p) ==
    /\ RenewLook(p)
    /\ pc'[p] = "renew" <=> Due
    /\ UNCHANGED timers

PacedRenew(p) ==
    /\ \/ /\ ~outage /\ RenewOK(p)
          /\ life' = [life EXCEPT ![held[p]] = TTL]
          /\ UNCHANGED missed
       \/ RenewFails(p) /\ missed' = (client # NoTok) /\ UNCHANGED life
    /\ UNCHANGED <<wait, age, sinceTick, outage, down>>

PacedRenewStore(p) ==
    /\ RenewStore(p)
    /\ age' = 0
    /\ UNCHANGED <<wait, life, sinceTick, outage, down, missed>>

-----------------------------------------------------------------------------
\* A token expires.  One that somebody revokes shows in the 403s alone.
Expire ==
    /\ TokenDies
    /\ \A t \in alive \ alive' : life[t] = 0
    /\ UNCHANGED <<timers, busy>>

OutageTurns ==
    /\ outage' = ~outage
    /\ down' = 0
    /\ UNCHANGED <<vars, wait, age, life, sinceTick, busy, missed>>

Less(n) == IF n = 0 THEN 0 ELSE n - 1

\* The clock advances by a unit, unless a call would then take longer than
\* calls do, a tick is due, or a token is to expire first.
Elapse ==
    /\ \A p \in Procs : pc[p] # "idle" => busy[p] < Latency
    /\ sinceTick < Period
    /\ \A t \in alive : life[t] > 0
    /\ wait' = Less(wait)
    /\ IF blocked /\ wait' = 0 THEN BackoffElapses ELSE UNCHANGED vars
    /\ age' = IF sched # NoTok /\ age < Margin THEN age + 1 ELSE age
    /\ life' = [t \in Tokens |-> IF t \in alive /\ ~Fresh(t) THEN Less(life[t]) ELSE 0]
    /\ sinceTick' = sinceTick + 1
    /\ busy' = [p \in Procs |-> IF pc[p] = "idle" THEN 0 ELSE busy[p] + 1]
    /\ down' = IF client = NoTok /\ config # NoCfg /\ ~outage THEN down + 1 ELSE 0
    /\ UNCHANGED <<outage, missed>>

PacedRestart ==
    /\ ConfigRestart /\ LoopbackReset
    /\ wait' = 0 /\ age' = 0 /\ down' = 0 /\ missed' = FALSE
    /\ busy' = [p \in Procs |-> 0]
    /\ UNCHANGED <<life, sinceTick, outage>>

PacedCall(p) ==
    /\ \/ PacedBegin(p) \/ PacedLocal(p) \/ PacedLogin(p) \/ PacedRecord(p) \/ PacedInstall(p)
       \/ PacedAnswer(p) \/ PacedDiscard(p)
       \/ PacedRenewLook(p) \/ PacedRenew(p) \/ PacedRenewStore(p)
    /\ busy' = [busy EXCEPT ![p] = IF pc'[p] = "idle" THEN 0 ELSE @]

PacedNext ==
    \/ \E p \in Procs : PacedCall(p)
    \/ IdleTick
    \/ Expire
    \/ ConfigWrite /\ UNCHANGED <<lvars, timers, busy>>
    \/ PacedRestart
    \/ OutageTurns
    \/ Elapse

PacedSpec == PacedInit /\ [][PacedNext]_pacedvars

-----------------------------------------------------------------------------
PacedTypeOK ==
    /\ LoopbackTypeOK
    /\ wait \in 0..MaxDelay
    /\ age \in 0..Margin
    /\ life \in [Tokens -> 0..TTL]
    /\ sinceTick \in 0..Period
    /\ busy \in [Procs -> 0..Latency]
    /\ outage \in BOOLEAN /\ down \in Nat /\ missed \in BOOLEAN

\* However long OpenBao was out, whatever attempts overlapped and whatever was
\* discarded, a configured engine has its client back within this time of OpenBao
\* answering again, with no request to prompt it (README: it "retries client
\* construction with exponential backoff, capped at five minutes between
\* attempts").
RecoversInTime == down < MaxDelay + Period + 2 * Latency

\* The third of the TTL that is left at the margin outlasts the period and the
\* calls on either side of the tick: a condition on the role that is logged in.
MarginCoversTick == TTL >= 3 * (Period + 2 * Latency)

\* Where the margin covers a tick, the current client's token does not run out
\* while the ticks go on and no renewal fails: renewing at two thirds leaves time
\* enough, also where a late renewal wrote the schedule of another token over the
\* current one's.
RenewedAhead == client # NoTok /\ client \in alive /\ ~missed => life[client] > 0

\* Nothing but a login that succeeded, or a restart, brings the next login
\* nearer: overlapping failures only ever put it off.
HeldBackInFull == [][wait' < wait => failures' = 0 \/ sinceTick' = sinceTick + 1]_pacedvars
=============================================================================
