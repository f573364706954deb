---------------------------- MODULE MappingLedger ----------------------------
(***************************************************************************)
(* What the mappings promise to whoever rewrites, deletes and reads them,  *)
(* without locks, clients, leases or storage errors: a mapping goes live   *)
(* once, with the admin/map write that made it; a request is served from a *)
(* mapping that is live when the request takes it up; a request that finds *)
(* its mapping at fault puts that mapping under quarantine, in place of    *)
(* whatever its view maps to by then; and no mapping returns from there.   *)
(*                                                                         *)
(* Module Dereference implements this specification: see AsLedger there.   *)
(***************************************************************************)
CONSTANTS
    Views,
    Readers,            \* data/<view> requests that may be in flight together
    Gens,               \* identities of admin/map writes
    NoEntry             \* no mapping

VARIABLES
    mapping,            \* per view: the mapping it has, and whether in quarantine
    serving,            \* per request: the mapping it is served from
    spent               \* the writes that went live, or never will

ledgervars == <<mapping, serving, spent>>

LedgerInit ==
    /\ mapping = [v \in Views |-> NoEntry]
    /\ serving = [p \in Readers |-> NoEntry]
    /\ spent = {}

\* An admin/map write takes effect.  Its mapping is live and no other write's.
Write(v) ==
    /\ \E g \in Gens \ spent :
          /\ mapping' = [mapping EXCEPT ![v] = [gen |-> g, quarantined |-> FALSE]]
          /\ spent' = spent \cup {g}
    /\ UNCHANGED serving

\* An admin/map write that storage refused is gone.
Lapse ==
    /\ \E g \in Gens \ spent : spent' = spent \cup {g}
    /\ UNCHANGED <<mapping, serving>>

Delete(v) ==
    /\ mapping[v] # NoEntry
    /\ mapping' = [mapping EXCEPT ![v] = NoEntry]
    /\ UNCHANGED <<serving, spent>>

\* A request takes up the mapping of its view, unless that is in quarantine.
TakeUp(p, v) ==
    /\ serving[p] = NoEntry
    /\ mapping[v] # NoEntry /\ ~mapping[v].quarantined
    /\ serving' = [serving EXCEPT ![p] = [view |-> v, gen |-> mapping[v].gen]]
    /\ UNCHANGED <<mapping, spent>>

\* The request finds the mapping it was served from at fault.
Quarantine(p) ==
    /\ serving[p] # NoEntry
    /\ mapping' = [mapping EXCEPT ![serving[p].view] =
                      [gen |-> serving[p].gen, quarantined |-> TRUE]]
    /\ UNCHANGED <<serving, spent>>

\* The request is answered.
Finish(p) ==
    /\ serving[p] # NoEntry
    /\ serving' = [serving EXCEPT ![p] = NoEntry]
    /\ UNCHANGED <<mapping, spent>>

\* The mappings survive a restart of the engine; requests and writes do not.
Crash ==
    /\ serving' = [p \in Readers |-> NoEntry]
    /\ spent' \in SUBSET Gens /\ spent \subseteq spent'
    /\ UNCHANGED mapping

LedgerNext ==
    \/ \E v \in Views : Write(v) \/ Delete(v)
    \/ \E p \in Readers : (\E v \in Views : TakeUp(p, v)) \/ Quarantine(p) \/ Finish(p)
    \/ Lapse
    \/ Crash

LedgerSpec == LedgerInit /\ [][LedgerNext]_ledgervars
=============================================================================
