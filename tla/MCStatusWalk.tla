---------------------------- MODULE MCStatusWalk ----------------------------
(* StatusWalk over the views "app" and "app/db", whose directory "app/" is   *)
(* listed beside the view of the same name.                                  *)
EXTENDS StatusWalk, TLC

CONSTANTS app, appdb, appdir, root

MCBody ==
    {[role_id |-> "r1", secret_id |-> "s1", api_addr |-> "a1",
      expose_targets |-> FALSE, target_mount_allowlist |-> {}]}

MCTarget == {[mount |-> "kv", field |-> ""]}

MCDirOf == (app :> root) @@ (appdir :> root) @@ (appdb :> appdir)
MCAbove == (app :> {root}) @@ (appdb :> {root, appdir})
=============================================================================
