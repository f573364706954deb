------------------------------ MODULE MCSurface ------------------------------
(* Surface over a path for every pattern and some for none, a target that    *)
(* the grammar admits and targets that miss it in one way each, and bodies   *)
(* with and without expose_targets, and without each of the required fields. *)
EXTENDS Surface

Body(role, secret, addr, expose) ==
    [role_id |-> role, secret_id |-> secret, api_addr |-> addr,
     expose_targets |-> expose, target_mount_allowlist |-> {}]

MCBodies ==
    { Body("r1", "s1", "a1", FALSE), Body("r1", "s1", "a1", TRUE),
      Body("", "s1", "a1", TRUE), Body("r1", "", "a1", TRUE), Body("r1", "s1", "", TRUE) }

MCViews == {<<"app">>, <<"dir", "app">>}

Paths ==
    { <<"data", "app">>, <<"data", "dir", "app">>, <<"data">>,
      <<"metadata", "app">>, <<"metadata", "dir">>, <<"metadata", "">>,
      <<"config">>, <<"config", "app">>, <<"destroy", "app">>,
      <<"admin", "map", "app">>, <<"admin", "map", "dir", "app">>, <<"admin", "map", "">>,
      <<"admin", "config">>, <<"admin", "status">> }

\* One request is about anything, configuration writes included, the other about
\* what reads or writes the mapping they share.
Contended ==
    { [op |-> "read", path |-> <<"data", "app">>],
      [op |-> "read", path |-> <<"metadata", "app">>],
      [op |-> "update", path |-> <<"admin", "map", "app">>],
      [op |-> "delete", path |-> <<"admin", "map", "app">>] }

CONSTANTS q1, q2
MCRequests == (q1 :> [op : Ops, path : Paths]) @@ (q2 :> Contended)

MCOwnMount == <<"vs">>

MCTargets ==
    { <<"sec", "/", "app", "#", "field">>,
      <<"sec", "/", ".", ".", "/", "sys">>,
      <<"vs", "/", "data", "/", "app">>,
      <<"sys", "/", "app">>,
      <<"sec", "/", "app", "#">>,
      <<"sec", "/", "app", "?">> }

\* canonicalizeTarget against the grammar, for every target of up to six lexemes.
Lexemes == {"/", "#", "%", ".", "vs", "data"}
Strings(n) == UNION {[1..k -> Lexemes] : k \in 0..n}

ASSUME \A t \in Strings(6) :
    Canonical(t, MCOwnMount) <=> Documented(t) /\ TargetMount(PathOf(t)) # MCOwnMount

ASSUME GrammarMet
=============================================================================
