------------------------------- MODULE Surface -------------------------------
(***************************************************************************)
(* The request surface of the engine: which handler a verb on a path       *)
(* reaches, what it answers, and what an answer discloses of a target      *)
(* (src/backend/backend.go, paths_*.go, mapping.go, dereference.go).       *)
(*                                                                         *)
(* Requests run beside each other; a handler is as many steps as it makes  *)
(* accesses to shared state.  A request that writes the configuration is   *)
(* one of EngineConfig's Admins, and takes that module's two steps.  Of a  *)
(* dereference only its outcome is here, module Dereference has the rest.  *)
(***************************************************************************)
EXTENDS EngineConfig, Targets

CONSTANTS
    Reqs,           \* requests that may be in flight together
    Views,          \* views, as sequences of segments
    Requests,       \* per request: the verbs and paths it may be about, the path
                    \* likewise a sequence, without the mount point
    TargetInputs,   \* the targets an admin/map write may carry
    OwnMount,       \* the mount point of the engine, as a sequence of lexemes
    NoEntry         \* no mapping entry

ASSUME SurfaceNoEntryAssumption ==
    NoEntry \notin [target : TargetInputs, quarantined : BOOLEAN]

VARIABLES
    maps,           \* the `map/<view>` storage entries
    req,            \* the verb and path each request is about
    at,             \* where each request is
    snap,           \* the configuration a handler read when it began
    copy,           \* the mapping entry a handler has in hand
    answer,         \* the status a request is answered with, and what of a
                    \* target it names
    exposed         \* history: expose_targets was on while the request ran

Handlers ==
    {"configRead", "configWrite", "statusRead", "mapRead", "mapWrite", "mapDelete", "mapList",
     "dataRead", "metadataRead", "metadataList", "405", "404", "unsupported"}
Places == Handlers \cup {"idle", "answered", "configCache", "mapPut", "metadataGet", "dataGet",
                       "deref", "violated"}

\* What an answer may name of a target.
Names == {"nothing", "mount", "target"}
Statuses == {200, 204, 400, 404, 405, 500, 502}

locals == <<req, at, snap, copy, answer, exposed>>
surfacevars == <<cvars, maps, locals>>

Entries == [target : TargetInputs, quarantined : BOOLEAN]

-----------------------------------------------------------------------------
(* Routing.                                                                *)

Writes == {"create", "update", "patch", "delete"}
Ops == Writes \cup {"read", "list"}

ASSUME RequestsAssumption ==
    \A r \in Reqs : \A q \in Requests[r] :
        q.op \in Ops /\ q.path \in Seq(STRING) /\ q.path # <<>>

\* A pattern is a literal path, or one followed by a captured view.
Exactly(lit, ops) == [lit |-> lit, capture |-> FALSE, ops |-> ops]
Under(lit, ops) == [lit |-> lit, capture |-> TRUE, ops |-> ops]

\* path405 and path404 registered for every verb.
Always(h) == [o \in Ops |-> h]

AdminRoutes ==
    << Exactly(<<"admin", "config">>, [read |-> "configRead", update |-> "configWrite"]),
       Under(<<"admin", "map">>, [read |-> "mapRead", update |-> "mapWrite",
                                  delete |-> "mapDelete", list |-> "mapList"]),
       Exactly(<<"admin", "status">>, [read |-> "statusRead"]) >>

ConsumerRoutes ==
    << Under(<<"data">>, [o \in Writes \cup {"read"} |-> IF o = "read" THEN "dataRead" ELSE "405"]),
       Under(<<"metadata">>, [o \in Ops |-> IF o \in Writes THEN "405"
                                            ELSE IF o = "read" THEN "metadataRead"
                                            ELSE "metadataList"]) >>

ReservedRoutes ==
    << Exactly(<<"config">>, Always("405")), Under(<<"delete">>, Always("405")),
       Under(<<"undelete">>, Always("405")), Under(<<"destroy">>, Always("405")),
       Under(<<"detailed-metadata">>, Always("405")) >>

CatchAll == << Under(<<>>, Always("404")) >>

\* Mutant: the catch-all comes before the reserved paths.
RoutesCaughtEarly == AdminRoutes \o ConsumerRoutes \o CatchAll \o ReservedRoutes

\* backendPaths.
Routes == AdminRoutes \o ConsumerRoutes \o ReservedRoutes \o CatchAll

Matches(route, path) ==
    IF route.capture THEN IsStrictPrefix(route.lit, path) ELSE path = route.lit

\* The framework takes the first pattern that matches; a verb its path does not
\* register is unsupported.
Handler(op, path) ==
    LET ops == Routes[Min({i \in 1..Len(Routes) : Matches(Routes[i], path)})].ops
    IN  IF op \in DOMAIN ops THEN ops[op] ELSE "unsupported"

\* The requests that may write the configuration are writers EngineConfig knows.
ASSUME WritersAssumption ==
    \A r \in Reqs : \A q \in Requests[r] : Handler(q.op, q.path) = "configWrite" => r \in Admins

\* The view, or list prefix, a path captures after a literal of n segments.
Captured(r, n) == SubSeq(req[r].path, n + 1, Len(req[r].path))

\* storage.List: whether anything is stored below a prefix, the root for "".
HasChildren(prefix) ==
    \E v \in Views : maps[v] # NoEntry /\ (prefix = <<"">> \/ IsStrictPrefix(prefix, v))

Mapping(v) == IF v \in Views THEN maps[v] ELSE NoEntry

-----------------------------------------------------------------------------
NoAnswer == [status |-> 0, names |-> "nothing"]
NoRequest == [op |-> "read", path |-> <<"">>]
AllRequests == {NoRequest} \cup (UNION {Requests[r] : r \in Reqs})

SurfaceInit ==
    /\ ConfigInit
    /\ maps = [v \in Views |-> NoEntry]
    /\ req = [r \in Reqs |-> NoRequest]
    /\ at = [r \in Reqs |-> "idle"]
    /\ snap = [r \in Reqs |-> NoCfg]
    /\ copy = [r \in Reqs |-> NoEntry]
    /\ answer = [r \in Reqs |-> NoAnswer]
    /\ exposed = [r \in Reqs |-> FALSE]

Exposes(cfg) == cfg # NoCfg /\ cfg.expose_targets

\* What an answer of the consumer surface names under cfg: at most the mount in
\* an error (dereferenceErrorMsg), the whole target in metadata (customMetadata).
Named(cfg, what) == IF Exposes(cfg) THEN what ELSE "nothing"

\* The handler returns.
Return(r, status, names) ==
    /\ answer' = [answer EXCEPT ![r] = [status |-> status, names |-> names]]
    /\ at' = [at EXCEPT ![r] = "answered"]
    /\ snap' = [snap EXCEPT ![r] = NoCfg]
    /\ copy' = [copy EXCEPT ![r] = NoEntry]
    /\ UNCHANGED req

Reply(r, status, names) == Return(r, status, names) /\ UNCHANGED <<cvars, exposed>>

\* The handler goes on, with what it has read so far.
Continue(r, l, cfg, entry) ==
    /\ at' = [at EXCEPT ![r] = l]
    /\ snap' = [snap EXCEPT ![r] = cfg]
    /\ copy' = [copy EXCEPT ![r] = entry]
    /\ UNCHANGED <<cvars, req, answer, exposed>>

\* A request is routed.
Begin(r) ==
    /\ at[r] = "idle"
    /\ \E q \in Requests[r] :
          /\ req' = [req EXCEPT ![r] = q]
          /\ at' = [at EXCEPT ![r] = Handler(q.op, q.path)]
    /\ exposed' = [exposed EXCEPT ![r] = Exposes(config)]
    /\ UNCHANGED <<cvars, maps, snap, copy, answer>>

\* The client has its answer.
Collect(r) ==
    /\ at[r] = "answered"
    /\ at' = [at EXCEPT ![r] = "idle"]
    /\ req' = [req EXCEPT ![r] = NoRequest]
    /\ answer' = [answer EXCEPT ![r] = NoAnswer]
    /\ exposed' = [exposed EXCEPT ![r] = FALSE]
    /\ UNCHANGED <<cvars, maps, snap, copy>>

\* The answers that depend on the route alone.
Refuse(r) ==
    /\ \/ at[r] = "405" /\ Reply(r, 405, "nothing")
       \/ at[r] = "404" /\ Reply(r, 404, "nothing")
       \/ at[r] = "unsupported" /\ Reply(r, 405, "nothing")
    /\ UNCHANGED maps

\* pathConfigRead, and pathStatusRead as far as its answer goes.
AdminRead(r) ==
    /\ \/ at[r] = "configRead" /\ Reply(r, IF stored = NoCfg THEN 404 ELSE 200, "nothing")
       \/ at[r] = "statusRead" /\ Reply(r, 200, "nothing")
    /\ UNCHANGED maps

\* pathMapRead and pathMapList; administrators see targets.  A list response
\* without keys is rendered like an absent entry.
MapRead(r) ==
    /\ \/ /\ at[r] = "mapRead"
          /\ LET e == Mapping(Captured(r, 2))
             IN  IF e = NoEntry THEN Reply(r, 404, "nothing") ELSE Reply(r, 200, "target")
       \/ /\ at[r] = "mapList"
          /\ Reply(r, IF HasChildren(Captured(r, 2)) THEN 200 ELSE 404, "nothing")
    /\ UNCHANGED maps

\* pathConfigWrite up to the Put.  A body that fails validation and a Put that
\* fails are both answered with an error response.
ConfigStore(r) ==
    /\ at[r] = "configWrite"
    /\ \/ /\ ConfigPut(r)
          /\ at' = [at EXCEPT ![r] = "configCache"]
          /\ UNCHANGED <<req, snap, copy, answer, exposed>>
       \/ Reply(r, 400, "nothing")
    /\ UNCHANGED maps

\* While a request runs, a configuration that exposes targets becomes current.
Exposure ==
    exposed' = [r \in Reqs |->
        exposed[r] \/ (at[r] \notin {"idle", "answered"} /\ Exposes(config'))]

\* The rest of pathConfigWrite: the configuration is cached and becomes current.
ConfigDone(r) ==
    /\ at[r] = "configCache"
    /\ ConfigCache(r)
    /\ Return(r, 204, "nothing")
    /\ Exposure
    /\ UNCHANGED maps

\* validAdapterOverride, on overrides of which "kv1" is one the code refuses.
AdapterInputs == {"", "kv2", "raw", "kv1"}
ValidAdapterOverride(adapter) == adapter \in {"", "kv2", "raw"}

\* A mount's name as configurations spell it; what is no single word is in no list.
MountName(target) ==
    LET m == TargetMount(PathOf(target)) IN IF Len(m) = 1 THEN m[1] ELSE ""

\* pathMapWrite up to the entry it builds.
MapCheck(r) ==
    /\ at[r] = "mapWrite"
    /\ \E t \in TargetInputs, adapter \in AdapterInputs :
          IF /\ Captured(r, 2) # <<"">>
             /\ ValidAdapterOverride(adapter)
             /\ Canonical(t, OwnMount)
             /\ TargetMountAllowed(config, MountName(t))
          THEN Continue(r, "mapPut", NoCfg, [target |-> t, quarantined |-> FALSE])
          ELSE Reply(r, 400, "nothing")
    /\ UNCHANGED maps

\* pathMapWrite's Put, and pathMapDelete.
MapPut(r) ==
    /\ \/ at[r] = "mapPut" /\ maps' = [maps EXCEPT ![Captured(r, 2)] = copy[r]]
       \/ /\ at[r] = "mapDelete"
          /\ maps' = [v \in Views |-> IF v = Captured(r, 2) THEN NoEntry ELSE maps[v]]
    /\ Reply(r, 204, "nothing")

\* The configuration pathDataRead and pathMetadataRead begin with.
Snapshot(r) ==
    /\ \/ at[r] = "metadataRead" /\ Continue(r, "metadataGet", config, NoEntry)
       \/ at[r] = "dataRead" /\ Continue(r, "dataGet", config, NoEntry)
    /\ UNCHANGED maps

\* pathMetadataRead after its snapshot, and pathMetadataList.
Metadata(r) ==
    /\ \/ /\ at[r] = "metadataGet"
          /\ IF Mapping(Captured(r, 1)) = NoEntry THEN Reply(r, 404, "nothing")
             ELSE Reply(r, 200, Named(snap[r], "target"))
       \/ /\ at[r] = "metadataList"
          /\ Reply(r, IF HasChildren(Captured(r, 1)) THEN 200 ELSE 404, "nothing")
    /\ UNCHANGED maps

\* pathDataRead's lookup and fast-fail.
DataGet(r) ==
    /\ at[r] = "dataGet"
    /\ LET e == Mapping(Captured(r, 1))
       IN  IF e = NoEntry THEN Reply(r, 404, "nothing")
           ELSE IF e.quarantined THEN Reply(r, 502, Named(snap[r], "mount"))
           ELSE Continue(r, "deref", snap[r], e)
    /\ UNCHANGED maps

\* The dereference succeeds, fails, or finds the contract violated: then
\* quarantineMapping writes the entry in hand back.
Deref(r) ==
    /\ at[r] = "deref"
    /\ \/ /\ \/ Reply(r, 200, Named(snap[r], "target"))
             \/ Reply(r, 502, Named(snap[r], "mount"))
          /\ UNCHANGED maps
       \/ /\ maps' \in {maps, [maps EXCEPT ![Captured(r, 1)] = [copy[r] EXCEPT !.quarantined = TRUE]]}
          /\ Continue(r, "violated", NoCfg, NoEntry)

\* Mutant: the violation is worded by the configuration in storage.
ViolationStored(r) ==
    /\ at[r] = "violated"
    /\ Reply(r, 502, Named(stored, "mount"))
    /\ UNCHANGED maps

\* checkStaticContract words its answer by the configuration of that moment.
Violation(r) ==
    /\ at[r] = "violated"
    /\ Reply(r, 502, Named(config, "mount"))
    /\ UNCHANGED maps

\* Storage fails a handler that was to read or write it.
StorageFails(r) ==
    /\ at[r] \in {"configRead", "statusRead", "mapRead", "mapList", "mapPut", "mapDelete",
                  "metadataGet", "metadataList", "dataGet"}
    /\ Reply(r, 500, "nothing")
    /\ UNCHANGED maps

\* The process stops; requests in it get no answer.
SurfaceRestart ==
    /\ ConfigRestart
    /\ at' = [r \in Reqs |-> "idle"]
    /\ req' = [r \in Reqs |-> NoRequest]
    /\ exposed' = [r \in Reqs |-> FALSE]
    /\ snap' = [r \in Reqs |-> NoCfg]
    /\ copy' = [r \in Reqs |-> NoEntry]
    /\ answer' = [r \in Reqs |-> NoAnswer]
    /\ UNCHANGED maps

Handle(r) ==
    \/ Begin(r) \/ Collect(r) \/ Refuse(r) \/ AdminRead(r)
    \/ ConfigStore(r) \/ ConfigDone(r) \/ MapRead(r) \/ MapCheck(r) \/ MapPut(r)
    \/ Snapshot(r) \/ Metadata(r) \/ DataGet(r) \/ Deref(r) \/ Violation(r)
    \/ StorageFails(r)

SurfaceNext == (\E r \in Reqs : Handle(r)) \/ SurfaceRestart

SurfaceSpec == SurfaceInit /\ [][SurfaceNext]_surfacevars

-----------------------------------------------------------------------------
(* For which paths and verbs, which statuses.  The repository README's       *)
(* tables give them for consumers and for the reserved paths.  Of the admin  *)
(* paths they give the effects: there a read or a list of nothing is 404, a  *)
(* write or delete that was done 204 and one that was refused 400, as the    *)
(* HTTP layer renders a nil response, a list without keys and an error       *)
(* response.  500 is a storage error the handler returns as an error, which  *)
(* admin/config POST does not.                                               *)

Row(lit, capture, ops, statuses) ==
    [route |-> [lit |-> lit, capture |-> capture], ops |-> ops, statuses |-> statuses]

DataRows ==
    { Row(<<"data">>, TRUE, {"read"}, {200, 404, 502, 500}),
      Row(<<"data">>, TRUE, Writes, {405}) }

MetadataRows ==
    { Row(<<"metadata">>, TRUE, {"read", "list"}, {200, 404, 500}),
      Row(<<"metadata">>, TRUE, Writes, {405}) }

ReservedRows ==
    { Row(<<"config">>, FALSE, Ops, {405}),
      Row(<<"delete">>, TRUE, Ops, {405}),
      Row(<<"undelete">>, TRUE, Ops, {405}),
      Row(<<"destroy">>, TRUE, Ops, {405}),
      Row(<<"detailed-metadata">>, TRUE, Ops, {405}) }

MapRows ==
    { Row(<<"admin", "map">>, TRUE, {"read"}, {200, 404, 500}),
      Row(<<"admin", "map">>, TRUE, {"update"}, {204, 400, 500}),
      Row(<<"admin", "map">>, TRUE, {"delete"}, {204, 500}),
      Row(<<"admin", "map">>, TRUE, {"list"}, {200, 404, 500}) }

EngineRows ==
    { Row(<<"admin", "config">>, FALSE, {"read"}, {200, 404, 500}),
      Row(<<"admin", "config">>, FALSE, {"update"}, {204, 400}),
      Row(<<"admin", "status">>, FALSE, {"read"}, {200, 500}) }

DocumentedRows == DataRows \cup MetadataRows \cup ReservedRows \cup MapRows \cup EngineRows

\* "anything else, excluding <mount>/admin/*".
Elsewhere(path) == path[1] # "admin" /\ \A d \in DocumentedRows : ~Matches(d.route, path)

SurfaceTypeOK ==
    /\ ConfigTypeOK
    /\ maps \in [Views -> Entries \cup {NoEntry}]
    /\ req \in [Reqs -> AllRequests]
    /\ at \in [Reqs -> Places]
    /\ snap \in [Reqs -> ValidCfgs \cup {NoCfg}]
    /\ copy \in [Reqs -> Entries \cup {NoEntry}]
    /\ answer \in [Reqs -> [status : {0} \cup Statuses, names : Names]]
    /\ exposed \in [Reqs -> BOOLEAN]

\* Every answer, whatever happened to the configuration and the mappings while
\* it was prepared, is one the tables above give for that verb and path, and a
\* path outside every table is answered 404.
AnsweredAsDocumented ==
    \A r \in Reqs : at[r] = "answered" =>
        /\ \A d \in DocumentedRows :
               Matches(d.route, req[r].path) /\ req[r].op \in d.ops => answer[r].status \in d.statuses
        /\ Elsewhere(req[r].path) => answer[r].status = 404

\* An answer of the consumer surface names a target, or its mount, only if
\* targets were exposed at some moment while the request ran: one made after
\* expose_targets was turned off names neither, whatever the request that turned
\* it off raced with (README: the mount reaches an answer "only when
\* expose_targets=true"; that metadata names more than the mount is not covered).
Redacted ==
    \A r \in Reqs :
        at[r] = "answered" /\ answer[r].names # "nothing" /\ req[r].path[1] # "admin" => exposed[r]

\* canonicalizeTarget lets through what the documented grammar admits.
GrammarMet == \A t \in TargetInputs : Canonical(t, OwnMount) => Documented(t)

\* Every mapping in storage, whatever quarantines and rewrites it went through,
\* has a target the documented grammar admits, under a mount that is neither
\* reserved nor the engine's own.
TargetsAdmitted ==
    \A v \in Views : maps[v] # NoEntry =>
        /\ Documented(maps[v].target)
        /\ MountName(maps[v].target) \notin FixedRejectMounts
        /\ TargetMount(PathOf(maps[v].target)) # OwnMount
=============================================================================
