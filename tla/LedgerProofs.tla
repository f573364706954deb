---------------------------- MODULE LedgerProofs ----------------------------
(* Dereference implements MappingLedger: every step of a read, a mapping     *)
(* write, a token, the configuration or the process is one of the ledger, or *)
(* none that the ledger sees.                                                *)
EXTENDS DereferenceProofs

-----------------------------------------------------------------------------
(* The state as the ledger sees it.                                          *)

Mapped ==
    [v \in Views |->
        IF store[v] = NoEntry THEN NoEntry
        ELSE [gen |-> store[v].gen, quarantined |-> store[v].quarantined]]

Served ==
    [p \in Readers |->
        IF entry[p] = NoEntry THEN NoEntry ELSE [view |-> view[p], gen |-> entry[p].gen]]

Spent ==
    {g \in 1..lastGen : \A m \in Mappers : mreq[m] # NoEntry => mreq[m].entry.gen # g}

LEMMA LedgerSees ==
    /\ AsLedger!LedgerInit <=>
          /\ Mapped = [v \in Views |-> NoEntry]
          /\ Served = [p \in Readers |-> NoEntry]
          /\ Spent = {}
    /\ Mapped' = Mapped /\ Served' = Served /\ Spent' = Spent => UNCHANGED AsLedger!ledgervars
BY DEF AsLedger!LedgerInit, AsLedger!ledgervars, Mapped, Served, Spent

\* No mapping of the ledger is mistaken for none.
LEMMA NoEntryIsNone ==
    ASSUME DerefShape, NEW v \in Views, NEW p \in Readers
    PROVE  /\ Mapped[v] = NoEntry <=> store[v] = NoEntry
           /\ Served[p] = NoEntry <=> entry[p] = NoEntry
BY NoEntryAssumption DEF DerefShape, DerefTypeOK, Entries, Mapped, Served

-----------------------------------------------------------------------------
(* Steps the ledger does not see.                                            *)

\* What a read does between taking its entry up and answering is not seen, unless
\* it writes the quarantine.
LEMMA UnseenStep ==
    ASSUME DerefShape, UNCHANGED <<store, entry, lastGen, mreq>>,
           \A p \in Readers : view'[p] = view[p] \/ entry[p] = NoEntry
    PROVE  UNCHANGED AsLedger!ledgervars
<1>1. Mapped' = Mapped /\ Spent' = Spent BY DEF Mapped, Spent
<1>2. Served' = Served BY DEF Served
<1> QED BY <1>1, <1>2, LedgerSees

\* A write that is checked and not stored yet has not happened.
LEMMA CheckUnseen ==
    ASSUME DerefShape, NEW m \in Mappers, MapCheck(m)
    PROVE  UNCHANGED AsLedger!ledgervars
<1>1. mreq[m] = NoEntry /\ lastGen' = lastGen + 1 /\ lastGen \in Nat
    BY DerefBoundsAssumption DEF MapCheck, DerefShape, DerefTypeOK
<1>2. PICK r \in [view : Views, entry : Entries] :
          mreq' = [mreq EXCEPT ![m] = r] /\ r.entry.gen = lastGen + 1
    <2>1. lastGen + 1 \in Gens BY <1>1, DerefBoundsAssumption DEF MapCheck, Gens
    <2>2. PICK v \in Views, t \in Targets :
              mreq' = [mreq EXCEPT ![m] =
                  [view |-> v,
                   entry |-> [target |-> t, gen |-> lastGen + 1,
                              quarantined |-> FALSE, outcome |-> "none"]]]
        BY DEF MapCheck
    <2> DEFINE e == [target |-> t, gen |-> lastGen + 1, quarantined |-> FALSE,
                     outcome |-> "none"]
    <2>3. e \in Entries /\ e.gen = lastGen + 1 BY <2>1 DEF Entries, Outcomes
    <2>4. mreq' = [mreq EXCEPT ![m] = [view |-> v, entry |-> e]] BY <2>2
    <2> HIDE DEF e
    <2> DEFINE r == [view |-> v, entry |-> e]
    <2>5. r \in [view : Views, entry : Entries] /\ r.entry.gen = lastGen + 1 BY <2>3
    <2>6. mreq' = [mreq EXCEPT ![m] = r] BY <2>4
    <2> HIDE DEF r
    <2> QED BY <2>5, <2>6
<1>3. r # NoEntry BY NoEntryAssumption
<1>4. Spent' = Spent BY <1>1, <1>2, <1>3 DEF Spent, DerefShape, DerefTypeOK
<1>5. Mapped' = Mapped /\ Served' = Served BY DEF MapCheck, readvars, Mapped, Served
<1> QED BY <1>4, <1>5, LedgerSees

-----------------------------------------------------------------------------
(* Steps it does see.                                                        *)

LEMMA LookupSeen ==
    ASSUME DerefShape, NEW p \in Readers, Lookup(p)
    PROVE  (\E v \in Views : AsLedger!TakeUp(p, v)) \/ UNCHANGED AsLedger!ledgervars
<1>1. entry[p] = NoEntry /\ view[p] \in Views
    BY DEF Lookup, DerefShape, DerefTypeOK, ReaderShape
<1>2. CASE Answer(p)
    <2>1. entry' = entry BY <1>1, <1>2 DEF Answer, DerefShape, DerefTypeOK
    <2> QED BY <1>2, <2>1, UnseenStep DEF Answer, mapvars
<1>3. CASE ~Answer(p)
    <2> DEFINE e == store[view[p]]
    <2>1. /\ e # NoEntry /\ ~e.quarantined
          /\ entry' = [entry EXCEPT ![p] = e] /\ UNCHANGED <<store, lastGen, mreq, view>>
        BY <1>3 DEF Lookup, mapvars
    <2>2. Served' = [Served EXCEPT ![p] = [view |-> view[p], gen |-> e.gen]]
        BY <2>1 DEF Served, DerefShape, DerefTypeOK
    <2>3. Mapped[view[p]] = [gen |-> e.gen, quarantined |-> e.quarantined]
        BY <1>1, <2>1 DEF Mapped
    <2>4. Mapped[view[p]] # NoEntry /\ Served[p] = NoEntry BY <1>1, <2>1, NoEntryIsNone
    <2>5. Mapped' = Mapped /\ Spent' = Spent BY <2>1 DEF Mapped, Spent
    <2>6. PICK v \in Views : v = view[p] BY <1>1
    <2>7. AsLedger!TakeUp(p, v)
        BY <2>1, <2>2, <2>3, <2>4, <2>5, <2>6 DEF AsLedger!TakeUp, Mapped, Served, Spent
    <2> QED BY <2>7
<1> QED BY <1>2, <1>3

LEMMA QuarantineSeen ==
    ASSUME DerefShape, NEW p \in Readers, Quarantine(p)
    PROVE  AsLedger!Quarantine(p)
<1>1. entry[p] \in Entries /\ view[p] \in Views
    BY DEF Quarantine, DerefShape, DerefTypeOK, ReaderShape
<1> DEFINE e == [entry[p] EXCEPT !.quarantined = TRUE, !.outcome = outcome[p]]
<1>2. e \in Entries /\ e # NoEntry /\ e.gen = entry[p].gen /\ e.quarantined = TRUE
    <2>1. e \in Entries /\ e.gen = entry[p].gen /\ e.quarantined = TRUE
        BY <1>1 DEF Entries, DerefShape, DerefTypeOK
    <2> HIDE DEF e
    <2> QED BY <2>1, NoEntryAssumption
<1>3. store' = [store EXCEPT ![view[p]] = e] /\ UNCHANGED <<entry, view, lastGen, mreq>>
    BY DEF Quarantine, FailWith
<1> HIDE DEF e
<1>4. entry[p] # NoEntry BY <1>1, NoEntryAssumption
<1>5. Served[p] = [view |-> view[p], gen |-> entry[p].gen] BY <1>4 DEF Served
<1>6. Mapped' = [Mapped EXCEPT ![view[p]] = [gen |-> entry[p].gen, quarantined |-> TRUE]]
    BY <1>1, <1>2, <1>3 DEF Mapped, DerefShape, DerefTypeOK
<1>7. Served' = Served /\ Spent' = Spent BY <1>3 DEF Served, Spent
<1>8. Served[p] # NoEntry BY <1>1, <1>4, NoEntryIsNone
<1> QED BY <1>5, <1>6, <1>7, <1>8 DEF AsLedger!Quarantine, Mapped, Served, Spent

LEMMA AnswerSeen ==
    ASSUME DerefShape, NEW p \in Readers, Answer(p), entry[p] # NoEntry
    PROVE  AsLedger!Finish(p)
<1>1. Served' = [Served EXCEPT ![p] = NoEntry]
    BY DEF Answer, Served, DerefShape, DerefTypeOK
<1>2. Mapped' = Mapped /\ Spent' = Spent BY DEF Answer, mapvars, Mapped, Spent
<1>3. view[p] \in Views BY DEF DerefShape, DerefTypeOK
<1>4. Served[p] # NoEntry BY <1>3, NoEntryIsNone
<1> QED BY <1>1, <1>2, <1>4 DEF AsLedger!Finish, Mapped, Served, Spent

LEMMA PutSeen ==
    ASSUME DerefShape, Ledger, NEW m \in Mappers, MapPut(m)
    PROVE  (\E v \in Views : AsLedger!Write(v)) \/ AsLedger!Lapse
<1> DEFINE r == mreq[m]
           g == mreq[m].entry.gen
<1>1. r \in [view : Views, entry : Entries] /\ r # NoEntry
    BY DEF MapPut, DerefShape, DerefTypeOK
<1>2. /\ g \in Gens /\ g \in 1..lastGen /\ r.entry.quarantined = FALSE
      /\ \A n \in Mappers \ {m} : mreq[n] # NoEntry => mreq[n].entry.gen # g
    <2>1. g \in Gens /\ r.entry.quarantined \in BOOLEAN BY <1>1 DEF Entries
    <2>2. g <= lastGen /\ ~r.entry.quarantined BY <1>1 DEF Ledger
    <2> QED BY <1>1, <2>1, <2>2 DEF Ledger, Gens, DerefShape, DerefTypeOK
<1>3. mreq' = [mreq EXCEPT ![m] = NoEntry] /\ lastGen' = lastGen BY DEF MapPut
<1>4. g \in Gens \ Spent BY <1>1, <1>2 DEF Spent
<1>5. Spent' = Spent \cup {g}
    BY <1>1, <1>2, <1>3 DEF Spent, DerefShape, DerefTypeOK
<1>6. Served' = Served BY DEF MapPut, readvars, Served
<1>7. CASE UNCHANGED store
    <2>1. Mapped' = Mapped BY <1>7 DEF Mapped
    <2> QED BY <1>4, <1>5, <1>6, <2>1 DEF AsLedger!Lapse, Mapped, Served, Spent
<1>8. CASE store' = [store EXCEPT ![r.view] = r.entry]
    <2>1. r.entry # NoEntry /\ r.view \in Views BY <1>1, NoEntryAssumption
    <2>2. Mapped' = [Mapped EXCEPT ![r.view] = [gen |-> g, quarantined |-> FALSE]]
        BY <1>2, <1>8, <2>1 DEF Mapped, DerefShape, DerefTypeOK
    <2>3. PICK v \in Views : v = r.view BY <2>1
    <2>4. AsLedger!Write(v)
        BY <1>4, <1>5, <1>6, <2>2, <2>3 DEF AsLedger!Write, Mapped, Served, Spent
    <2> QED BY <2>4
<1> QED BY <1>7, <1>8 DEF MapPut

LEMMA DeleteSeen ==
    ASSUME DerefShape, NEW v \in Views, MapDelete(v)
    PROVE  AsLedger!Delete(v)
<1>1. Mapped' = [Mapped EXCEPT ![v] = NoEntry]
    BY DEF MapDelete, Mapped, DerefShape, DerefTypeOK
<1>2. Mapped[v] # NoEntry
    BY NoEntryAssumption DEF MapDelete, Mapped, DerefShape, DerefTypeOK, Entries
<1>3. Served' = Served /\ Spent' = Spent BY DEF MapDelete, readvars, Served, Spent
<1> QED BY <1>1, <1>2, <1>3 DEF AsLedger!Delete, Mapped, Served, Spent

LEMMA CrashSeen ==
    ASSUME DerefShape, DerefReset
    PROVE  AsLedger!Crash
<1>1. Mapped' = Mapped BY DEF DerefReset, Mapped
<1>2. Served' = [p \in Readers |-> NoEntry] BY DEF DerefReset, Served
<1>3. Spent' = 1..lastGen BY DEF DerefReset, Spent
<1>4. 1..lastGen \subseteq Gens BY DerefBoundsAssumption DEF DerefShape, DerefTypeOK, Gens
<1>5. Spent \subseteq 1..lastGen BY DEF Spent
<1> QED BY <1>1, <1>2, <1>3, <1>4, <1>5 DEF AsLedger!Crash, Mapped, Served, Spent

-----------------------------------------------------------------------------
LEMMA ReaderStepLedger ==
    ASSUME DerefShape, NEW p \in Readers, DataRead(p) \/ ReaderStep(p)
    PROVE  [AsLedger!LedgerNext]_(AsLedger!ledgervars)
<1>1. CASE DataRead(p)
    <2>1. entry[p] = NoEntry BY <1>1 DEF DataRead, DerefShape, ReaderShape
    <2>2. \A q \in Readers : view'[q] = view[q] \/ entry[q] = NoEntry
        BY <1>1, <2>1 DEF DataRead, DerefShape, DerefTypeOK
    <2> QED BY <1>1, <2>2, UnseenStep DEF DataRead, mapvars
<1>2. CASE Lookup(p) BY <1>2, LookupSeen DEF AsLedger!LedgerNext
<1>3. CASE Quarantine(p) BY <1>3, QuarantineSeen DEF AsLedger!LedgerNext
<1>4. CASE UnwrapOK(p) \/ Fail(p)
    <2>1. Answer(p) /\ entry[p] # NoEntry
        BY <1>4 DEF UnwrapOK, Fail, DerefShape, ReaderShape
    <2> QED BY <2>1, AnswerSeen DEF AsLedger!LedgerNext
<1>5. CASE NoClientFails(p) \/ ReadFails(p) \/ UnwrapFails(p) \/ QuarantineFails(p)
    BY <1>5, UnseenStep
       DEF NoClientFails, ReadFails, UnwrapFails, QuarantineFails, FailWith, mapvars
<1>6. CASE ReadStatic(p) \/ ReadLeased(p) \/ ReadRenewable(p) \/ ReadRefused(p)
    BY <1>6, UnseenStep
       DEF ReadStatic, ReadLeased, ReadRenewable, ReadRefused, Quiet, mapvars, readvars
<1>7. CASE \/ RevokeOK(p) \/ RevokeFails(p) \/ RecycleOK(p) \/ RecycleFails(p)
           \/ DiscardClient(p)
    BY <1>7, UnseenStep
       DEF RevokeOK, RevokeFails, RecycleOK, RecycleFails, DiscardClient, Quiet, mapvars,
           readvars
<1> QED BY <1>1, <1>2, <1>3, <1>4, <1>5, <1>6, <1>7 DEF ReaderStep

LEMMA StepLedger ==
    ASSUME DerefShape, Ledger, [DerefNext]_allvars
    PROVE  [AsLedger!LedgerNext]_(AsLedger!ledgervars)
<1>1. ASSUME UNCHANGED <<mapvars, readvars>> PROVE UNCHANGED AsLedger!ledgervars
    BY <1>1, UnseenStep DEF mapvars, readvars
<1>2. CASE \E p \in Procs : ClientStep(p) BY <1>1, <1>2 DEF ClientStep, Quiet
<1>3. CASE \E p \in Readers : DataRead(p) \/ ReaderStep(p) BY <1>3, ReaderStepLedger
<1>4. CASE MapStep
    BY <1>4, CheckUnseen, PutSeen, DeleteSeen DEF MapStep, AsLedger!LedgerNext
<1>5. CASE TokenDiesWithLeases BY <1>1, <1>5 DEF TokenDiesWithLeases
<1>6. CASE Quiet BY <1>1, <1>6 DEF Quiet
<1>7. CASE DerefReset BY <1>7, CrashSeen DEF AsLedger!LedgerNext
<1>8. CASE UNCHANGED allvars BY <1>1, <1>8 DEF allvars, dvars
<1> QED BY <1>2, <1>3, <1>4, <1>5, <1>6, <1>7, <1>8 DEF DerefNext

\* Whatever reads, mapping writes, failures and restarts overlap, a mapping goes
\* live once, with its own write; no request takes up one that is in quarantine;
\* and what a request puts in quarantine is the mapping it was served from.
THEOREM LedgerKeptByReads == DerefSpec => ImplementsLedger
<1>1. DerefInit => DerefShape /\ Ledger BY DerefShapeInit, LedgerInit
<1>2. DerefInit => AsLedger!LedgerInit
    <2> SUFFICES ASSUME DerefInit PROVE AsLedger!LedgerInit OBVIOUS
    <2>1. Spent = {} BY DEF DerefInit, Spent
    <2>2. /\ Mapped = [v \in Views |-> NoEntry]
          /\ Served = [p \in Readers |-> NoEntry]
        BY DEF DerefInit, Mapped, Served
    <2> QED BY <2>1, <2>2, LedgerSees
<1>3. DerefShape /\ Ledger /\ [DerefNext]_allvars => DerefShape' /\ Ledger'
    BY DerefShapeStep, LedgerStep
<1>4. DerefShape /\ Ledger /\ [DerefNext]_allvars
          => [AsLedger!LedgerNext]_(AsLedger!ledgervars)
    BY StepLedger
<1> QED BY <1>1, <1>2, <1>3, <1>4, PTL DEF DerefSpec, ImplementsLedger, AsLedger!LedgerSpec
=============================================================================
