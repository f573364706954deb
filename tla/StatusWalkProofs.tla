-------------------------- MODULE StatusWalkProofs --------------------------
(* Proofs about StatusWalk, for every tree of views, every number of status  *)
(* requests and whatever goes on beside them.                                *)
EXTENDS StatusWalk, DereferenceProofs

\* Status requests take no part in what they look at.
LEMMA StatusIsBeside == [StatusNext]_statusvars => [DerefNext]_allvars
BY DEF StatusNext, DerefNext, statusvars

\* So what is proved of Dereference holds while status requests walk.
THEOREM StatusRefinesDereference == StatusSpec => DerefSpec
<1>1. StatusInit => DerefInit BY DEF StatusInit
<1> QED BY <1>1, StatusIsBeside, PTL DEF StatusSpec, DerefSpec

LEMMA StatusShapeStep == DerefShape /\ [StatusNext]_statusvars => DerefShape'
BY StatusIsBeside, DerefShapeStep

StatusActs == \E s \in Statuses : (StatusBegin(s) \/ StatusStep(s)) /\ UNCHANGED allvars

\* The steps of the others, as the walks see them.
LEMMA OthersBeside ==
    ASSUME [StatusNext]_statusvars,
           ~StatusReset, ~StatusActs
    PROVE  /\ UNCHANGED <<spc, todo, found, counted>>
           /\ \A s \in Statuses : steady'[s] \in {steady[s], steady[s] \cap Mapped'}
           /\ lifted \subseteq lifted'
BY DEF StatusNext, StatusActs, Beside, statusvars, wvars

-----------------------------------------------------------------------------
(* Type correctness.                                                         *)

LEMMA StatusTypeInit == StatusInit => StatusTypeOK
BY DEF StatusInit, StatusTypeOK, NoneFound

LEMMA StatusTypeStep ==
    ASSUME DerefShape, StatusTypeOK, [StatusNext]_statusvars
    PROVE  StatusTypeOK'
<1> USE DEF StatusTypeOK, DerefShape, DerefTypeOK
<1>1. ASSUME NEW s \in Statuses, StatusBegin(s) PROVE StatusTypeOK'
    BY <1>1, TreeAssumption DEF StatusBegin, ViolationsCounted, Mapped
<1>2. ASSUME NEW s \in Statuses, WalkList(s) PROVE StatusTypeOK'
    BY <1>2 DEF WalkList, Children, Mapped
<1>3. ASSUME NEW s \in Statuses, WalkGet(s) PROVE StatusTypeOK'
    BY <1>3 DEF WalkGet
<1>4. ASSUME NEW s \in Statuses, WalkDone(s) PROVE StatusTypeOK'
    BY <1>4 DEF WalkDone
<1>5. ASSUME NEW s \in Statuses, StatusReturn(s) PROVE StatusTypeOK'
    BY <1>5 DEF StatusReturn, NoneFound
<1>6. CASE StatusReset
    BY <1>6 DEF StatusReset, NoneFound
<1>7. CASE ~StatusReset /\ ~StatusActs
    <2>1. lifted' \subseteq Views
        BY <1>7 DEF StatusNext, StatusActs, Beside, Lifts, Mapped, statusvars, wvars
    <2>2. steady' \in [Statuses -> SUBSET Views]
        BY <1>7 DEF StatusNext, StatusActs, Beside, statusvars, wvars
    <2> QED BY <1>7, <2>1, <2>2, OthersBeside
<1> QED BY <1>1, <1>2, <1>3, <1>4, <1>5, <1>6, <1>7 DEF StatusActs, StatusStep

\* Whatever is written beside it, a walk visits views and directories only, and
\* an answer is built when nothing is left to visit.
THEOREM StatusTypeCorrect == StatusSpec => []StatusTypeOK
<1>1. StatusInit => DerefShape /\ StatusTypeOK
    BY StatusTypeInit, DerefShapeInit DEF StatusInit
<1>2. DerefShape /\ StatusTypeOK /\ [StatusNext]_statusvars => DerefShape' /\ StatusTypeOK'
    BY StatusShapeStep, StatusTypeStep
<1> QED BY <1>1, <1>2, PTL DEF StatusSpec

-----------------------------------------------------------------------------
(* The walk.  A view that is mapped and not read yet is ahead of the walk:   *)
(* it is to be visited, or a directory that leads to it is.                  *)

Ahead(s, v) == v \in todo[s] \/ \E d \in Above[v] : d \in todo[s]

\* Listing one of the directories that lead to a mapped view finds the next.
LEMMA AheadListed ==
    ASSUME StatusTypeOK, NEW s \in Statuses, WalkList(s),
           NEW r \in Statuses, NEW v \in Mapped, Ahead(r, v)
    PROVE  Ahead(r, v)'
<1>1. PICK d \in todo[s] \cap Dirs : todo' = [todo EXCEPT ![s] = (@ \ {d}) \cup Children(d)]
    BY DEF WalkList
<1>2. v \in Views BY DEF Mapped
<1>3. CASE r # s BY <1>1, <1>3 DEF Ahead, StatusTypeOK
<1>4. CASE r = s
    <2>1. todo'[s] = (todo[s] \ {d}) \cup Children(d)
        BY <1>1 DEF StatusTypeOK
    <2>2. CASE v \in todo[s]
        BY <1>2, <1>4, <2>1, <2>2, TreeAssumption DEF Ahead
    <2>3. CASE d \in Above[v]
        <3>1. DirOf[v] = d \/ \E e \in Above[v] \ {Root} : DirOf[e] = d
            BY <1>2, <2>3, TreeAssumption
        <3>2. DirOf[v] = d => v \in Children(d) BY DEF Children
        <3>3. \A e \in Above[v] \ {Root} : DirOf[e] = d => e \in Children(d)
            BY <1>2, TreeAssumption DEF Children
        <3> QED BY <1>4, <2>1, <3>1, <3>2, <3>3 DEF Ahead
    <2>4. CASE v \notin todo[s] /\ d \notin Above[v]
        BY <1>4, <2>1, <2>4 DEF Ahead
    <2> QED BY <2>2, <2>3, <2>4
<1> QED BY <1>3, <1>4

\* Reading a view leaves the other ones ahead.
LEMMA AheadRead ==
    ASSUME StatusTypeOK, NEW s \in Statuses, WalkGet(s),
           NEW r \in Statuses, NEW v \in Views, Ahead(r, v)
    PROVE  Ahead(r, v)' \/ (r = s /\ found'[s][v] = store[v])
<1>1. PICK w \in todo[s] \cap Views : /\ todo' = [todo EXCEPT ![s] = @ \ {w}]
                                      /\ found' = [found EXCEPT ![s][w] = store[w]]
    BY DEF WalkGet
<1>2. CASE r # s BY <1>1, <1>2 DEF Ahead, StatusTypeOK
<1>3. CASE r = s /\ w = v BY <1>1, <1>3 DEF StatusTypeOK
<1>4. CASE r = s /\ w # v
    <2>1. w \notin Above[v] BY TreeAssumption
    <2> QED BY <1>1, <1>4, <2>1 DEF Ahead, StatusTypeOK
<1> QED BY <1>2, <1>3, <1>4

\* What WalkGet leaves of the entries found.
LEMMA FoundByGet ==
    ASSUME StatusTypeOK, NEW s \in Statuses, WalkGet(s), NEW r \in Statuses, NEW v \in Views
    PROVE  found'[r][v] = found[r][v] \/ found'[r][v] = store[v]
BY DEF WalkGet, StatusTypeOK

SteadySeen ==
    \A s \in Statuses : spc[s] # "idle" => \A v \in steady[s] :
        v \in Mapped /\ (Ahead(s, v) \/ found[s][v] # NoEntry)

LEMMA SteadyStep ==
    ASSUME DerefShape, StatusTypeOK, SteadySeen, [StatusNext]_statusvars
    PROVE  SteadySeen'
<1> USE DEF StatusTypeOK, SteadySeen
<1>1. ASSUME NEW s \in Statuses, StatusBegin(s), UNCHANGED allvars PROVE SteadySeen'
    <2>1. \A v \in Mapped : Ahead(s, v)'
        BY <1>1, TreeAssumption DEF StatusBegin, Ahead, Mapped
    <2>2. UNCHANGED store BY <1>1 DEF allvars, dvars, mapvars
    <2> QED BY <1>1, <2>1, <2>2 DEF StatusBegin, Ahead, Mapped
<1>2. ASSUME NEW s \in Statuses, WalkList(s), UNCHANGED allvars PROVE SteadySeen'
    BY <1>2, AheadListed DEF WalkList, allvars, dvars, mapvars, Mapped
<1>3. ASSUME NEW s \in Statuses, WalkGet(s), UNCHANGED allvars PROVE SteadySeen'
    <2>1. UNCHANGED <<spc, steady, store>> BY <1>3 DEF WalkGet, allvars, dvars, mapvars
    <2> SUFFICES ASSUME NEW r \in Statuses, spc[r] # "idle", NEW v \in steady[r]
                 PROVE  (v \in Mapped)' /\ (Ahead(r, v)' \/ found'[r][v] # NoEntry)
        BY <2>1
    <2>2. v \in Views /\ store[v] # NoEntry BY DEF Mapped
    <2> QED BY <1>3, <2>1, <2>2, AheadRead, FoundByGet DEF Mapped
<1>4. ASSUME NEW s \in Statuses, WalkDone(s), UNCHANGED allvars PROVE SteadySeen'
    BY <1>4 DEF WalkDone, Ahead, Mapped, allvars, dvars, mapvars
<1>5. ASSUME NEW s \in Statuses, StatusReturn(s), UNCHANGED allvars PROVE SteadySeen'
    BY <1>5 DEF StatusReturn, Ahead, Mapped, allvars, dvars, mapvars
<1>6. CASE StatusReset BY <1>6 DEF StatusReset
<1>7. CASE ~StatusReset /\ ~StatusActs
    <2>1. \/ steady' = [s \in Statuses |-> steady[s] \cap Mapped']
          \/ UNCHANGED <<steady, store>>
        BY <1>7 DEF StatusNext, StatusActs, Beside, statusvars, wvars, allvars, dvars, mapvars
    <2>2. UNCHANGED <<spc, todo, found>> BY <1>7, OthersBeside
    <2> QED BY <2>1, <2>2 DEF Ahead, Mapped
<1> QED BY <1>1, <1>2, <1>3, <1>4, <1>5, <1>6, <1>7 DEF StatusActs, StatusStep

\* A status answer counts every view that was mapped all the while its walk ran,
\* for any tree of views and whatever is written and deleted beside the walk.
THEOREM WalksAreComplete == StatusSpec => []WalkComplete
<1>1. StatusInit => DerefShape /\ StatusTypeOK /\ SteadySeen
    BY StatusTypeInit, DerefShapeInit DEF StatusInit, SteadySeen
<1>2. DerefShape /\ StatusTypeOK /\ SteadySeen /\ [StatusNext]_statusvars
          => DerefShape' /\ StatusTypeOK' /\ SteadySeen'
    BY StatusShapeStep, StatusTypeStep, SteadyStep
<1>3. StatusTypeOK /\ SteadySeen => WalkComplete
    BY DEF StatusTypeOK, SteadySeen, WalkComplete, Ahead
<1> QED BY <1>1, <1>2, <1>3, PTL DEF StatusSpec

-----------------------------------------------------------------------------
(* Counters and quarantines.  A view with a violation counted is quarantined *)
(* from before it is counted until admin/map lifts that.                     *)

Shut(v) == v \in lifted \/ (store[v] # NoEntry /\ store[v].quarantined)

ViolationsShut ==
    /\ \A k \in condemned : Shut(k[1])
    /\ \A p \in Readers : class[p] = "lease_violation" => Shut(view[p])

CountedSeen ==
    \A s \in Statuses : spc[s] # "idle" => \A v \in counted[s] :
        /\ Shut(v)
        /\ \/ Ahead(s, v) \/ v \in lifted
           \/ found[s][v] # NoEntry /\ found[s][v].quarantined

\* Readers store marked entries only, and admin/map is on record.
LEMMA ShutStays ==
    ASSUME DerefShape, StatusTypeOK, [StatusNext]_statusvars, NEW v \in Views, Shut(v)
    PROVE  Shut(v)'
<1> USE DEF Shut, DerefShape, DerefTypeOK
<1>1. CASE \E s \in Statuses : (StatusBegin(s) \/ StatusStep(s)) /\ UNCHANGED allvars
    BY <1>1 DEF StatusBegin, StatusStep, WalkList, WalkGet, WalkDone, StatusReturn,
                allvars, dvars, mapvars
<1>2. CASE MapStep /\ UNCHANGED vars /\ Beside /\ lifted' = lifted \cup Lifts
    BY <1>2 DEF Lifts, Mapped
<1>3. ASSUME NEW p \in Readers, Quarantine(p), UNCHANGED lifted PROVE Shut(v)'
    <2>1. entry[p] \in Entries BY <1>3 DEF Quarantine, ReaderShape
    <2>2. LET q == [entry[p] EXCEPT !.quarantined = TRUE, !.outcome = outcome[p]]
          IN  q # NoEntry /\ q.quarantined
        <3>1. [entry[p] EXCEPT !.quarantined = TRUE, !.outcome = outcome[p]] \in Entries
            BY <2>1 DEF Entries
        <3> QED BY <2>1, <3>1, NoEntryAssumption DEF Entries
    <2> QED BY <1>3, <2>2 DEF Quarantine
<1>4. CASE UNCHANGED <<store, lifted>> BY <1>4
<1>5. ASSUME NEW p \in Readers, DataRead(p) \/ ReaderStep(p), ~Quarantine(p)
      PROVE  UNCHANGED store
    BY <1>5 DEF DataRead, ReaderStep, Lookup, NoClientFails, ReadFails, UnwrapFails,
            QuarantineFails, ReadStatic, ReadLeased, ReadRenewable, ReadRefused, RevokeOK,
            RevokeFails, RecycleOK, RecycleFails, DiscardClient, UnwrapOK,
            Fail, Answer, Quiet, mapvars
<1>6. (\E p \in Procs : ClientStep(p)) \/ TokenDiesWithLeases \/ Quiet \/ DerefReset
          \/ UNCHANGED allvars
       => UNCHANGED store
    BY DEF ClientStep, TokenDiesWithLeases, Quiet, DerefReset, allvars, dvars, mapvars
<1>7. StatusReset \/ UNCHANGED statusvars => UNCHANGED lifted
    BY DEF StatusReset, statusvars, wvars
<1>8. UNCHANGED statusvars => UNCHANGED allvars BY DEF statusvars
<1> QED BY <1>1, <1>2, <1>3, <1>4, <1>5, <1>6, <1>7, <1>8 DEF StatusNext

LEMMA ViolationsShutStep ==
    ASSUME ~PutMayFail, DerefShape, StatusTypeOK, ViolationsShut, [StatusNext]_statusvars
    PROVE  ViolationsShut'
<1> USE DEF DerefShape, DerefTypeOK, ViolationsShut
<1>1. \A k \in condemned : k[1] \in Views /\ Shut(k[1])'
    BY ShutStays
<1>2. \A p \in Readers : class[p] = "lease_violation" =>
          \A v \in Views : v = view[p] => Shut(v)'
    BY ShutStays
<1>3. ASSUME NEW p \in Readers, Fail(p) PROVE ViolationsShut'
    <2>1. \A k \in condemned' \ condemned :
              class[p] = "lease_violation" /\ k[1] = view[p] /\ k[1] \in Views
        BY <1>3 DEF Fail, Key
    <2>2. \A k \in condemned' : Shut(k[1])' BY <1>1, <1>2, <2>1
    <2>3. view' = view /\ class' = [class EXCEPT ![p] = "none"]
        BY <1>3 DEF Fail, Answer
    <2>4. \A q \in Readers : class'[q] = "lease_violation" => Shut(view[q])'
        BY <1>2, <2>3 DEF Shut
    <2> QED BY <2>2, <2>4
<1>4. ASSUME NEW p \in Readers, Quarantine(p) PROVE ViolationsShut'
    <2>1. entry[p] \in Entries BY <1>4 DEF Quarantine, ReaderShape
    <2>2. [entry[p] EXCEPT !.quarantined = TRUE, !.outcome = outcome[p]] \in Entries
        BY <2>1 DEF Entries
    <2>3. Shut(view[p])'
        BY <1>4, <2>1, <2>2, NoEntryAssumption DEF Quarantine, Shut, FailWith, Entries
    <2>4. UNCHANGED <<view, condemned>> /\ class' = [class EXCEPT ![p] = "lease_violation"]
        BY <1>4 DEF Quarantine, FailWith
    <2>5. \A q \in Readers : class'[q] = "lease_violation" => Shut(view[q])'
        BY <1>2, <2>3, <2>4 DEF Shut
    <2> QED BY <1>1, <2>4, <2>5
<1>5. CASE /\ condemned' = condemned
           /\ \A p \in Readers : class'[p] = "lease_violation" =>
                  class[p] = "lease_violation" /\ view'[p] = view[p]
    <2>1. \A p \in Readers : class'[p] = "lease_violation" => Shut(view[p])'
        BY <1>2, <1>5 DEF Shut
    <2> QED BY <1>1, <1>5, <2>1
<1>6. ASSUME NEW p \in Readers, DataRead(p) \/ ReaderStep(p), ~Fail(p), ~Quarantine(p)
      PROVE  <1>5!1
    <2>1. CASE DataRead(p) BY <2>1 DEF DataRead, ReaderShape
    <2>2. CASE Lookup(p) BY <2>2 DEF Lookup, Answer
    <2>3. CASE NoClientFails(p) \/ ReadFails(p) \/ UnwrapFails(p) \/ QuarantineFails(p)
        BY <2>3 DEF NoClientFails, ReadFails, UnwrapFails, QuarantineFails, FailWith
    <2>4. CASE ReadStatic(p) \/ ReadLeased(p) \/ ReadRenewable(p) \/ ReadRefused(p)
                  \/ RecycleOK(p) \/ RecycleFails(p)
        BY <2>4 DEF ReadStatic, ReadLeased, ReadRenewable, ReadRefused, RecycleOK,
                    RecycleFails, Quiet, readvars
    <2>5. CASE RevokeOK(p) \/ RevokeFails(p) \/ DiscardClient(p)
        BY <2>5 DEF RevokeOK, RevokeFails, DiscardClient
    <2>6. CASE UnwrapOK(p) BY <2>6 DEF UnwrapOK, Answer
    <2> QED BY <1>6, <2>1, <2>2, <2>3, <2>4, <2>5, <2>6 DEF ReaderStep
<1>7. (\E p \in Procs : ClientStep(p)) \/ MapStep \/ TokenDiesWithLeases \/ Quiet
          \/ UNCHANGED allvars
       => <1>5!1
    BY DEF ClientStep, MapStep, MapCheck, MapPut, MapDelete, TokenDiesWithLeases, Quiet,
           allvars, dvars, readvars
<1>8. DerefReset => <1>5!1 BY DEF DerefReset
<1> QED BY <1>3, <1>4, <1>5, <1>6, <1>7, <1>8 DEF StatusNext, statusvars

LEMMA CountedStep ==
    ASSUME DerefShape, StatusTypeOK, ViolationsShut, CountedSeen, [StatusNext]_statusvars
    PROVE  CountedSeen'
<1> USE DEF StatusTypeOK, CountedSeen
<1>1. \A v \in Views : Shut(v) => Shut(v)' BY ShutStays
<1>2. ASSUME NEW s \in Statuses, StatusBegin(s), UNCHANGED allvars PROVE CountedSeen'
    <2>1. \A v \in Views : Ahead(s, v)'
        BY <1>2, TreeAssumption DEF StatusBegin, Ahead
    <2>2. \A v \in counted'[s] : v \in Views /\ Shut(v)
        BY <1>2 DEF StatusBegin, ViolationsCounted, ViolationsShut, DerefShape, DerefTypeOK
    <2> QED BY <1>1, <1>2, <2>1, <2>2 DEF StatusBegin, Ahead
<1>3. ASSUME NEW s \in Statuses, WalkList(s), UNCHANGED allvars PROVE CountedSeen'
    <2>1. \A v \in Views : Shut(v) => v \in lifted \/ v \in Mapped
        BY DEF Shut, Mapped
    <2> QED BY <1>1, <1>3, <2>1, AheadListed DEF WalkList
<1>4. ASSUME NEW s \in Statuses, WalkGet(s), UNCHANGED allvars PROVE CountedSeen'
    <2>1. UNCHANGED <<spc, counted, lifted>> BY <1>4 DEF WalkGet
    <2> SUFFICES ASSUME NEW r \in Statuses, spc[r] # "idle", NEW v \in counted[r]
                 PROVE  /\ Shut(v)'
                        /\ \/ Ahead(r, v)' \/ v \in lifted
                           \/ found'[r][v] # NoEntry /\ found'[r][v].quarantined
        BY <2>1
    <2>2. v \in Views /\ Shut(v) OBVIOUS
    <2> QED BY <1>1, <1>4, <2>2, AheadRead, FoundByGet DEF Shut
<1>5. ASSUME NEW s \in Statuses, WalkDone(s), UNCHANGED allvars PROVE CountedSeen'
    BY <1>1, <1>5 DEF WalkDone, Ahead
<1>6. ASSUME NEW s \in Statuses, StatusReturn(s), UNCHANGED allvars PROVE CountedSeen'
    BY <1>1, <1>6 DEF StatusReturn, Ahead
<1>7. CASE StatusReset BY <1>7 DEF StatusReset
<1>8. CASE ~StatusReset /\ ~StatusActs
    <2>1. UNCHANGED <<spc, todo, found, counted>> /\ lifted \subseteq lifted'
        BY <1>8, OthersBeside
    <2> QED BY <1>1, <2>1 DEF Ahead
<1> QED BY <1>2, <1>3, <1>4, <1>5, <1>6, <1>7, <1>8 DEF StatusActs, StatusStep

\* As long as storage takes the quarantine write, no status answer counts a
\* violation whose view it shows in good order, unless admin/map has been at
\* that view: the counters are copied before the mappings are walked.
THEOREM CountedViolationsShown ==
    ASSUME ~PutMayFail
    PROVE  StatusSpec => []CountedViolationShown
<1> DEFINE Inv == DerefShape /\ StatusTypeOK /\ ViolationsShut /\ CountedSeen
<1>1. StatusInit => Inv
    BY StatusTypeInit, DerefShapeInit DEF StatusInit, DerefInit, ViolationsShut, CountedSeen
<1>2. Inv /\ [StatusNext]_statusvars => Inv'
    BY StatusShapeStep, StatusTypeStep, ViolationsShutStep, CountedStep
<1>3. Inv => CountedViolationShown
    BY DEF StatusTypeOK, CountedSeen, CountedViolationShown, Ahead
<1> QED BY <1>1, <1>2, <1>3, PTL DEF StatusSpec
=============================================================================
