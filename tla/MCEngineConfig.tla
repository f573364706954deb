--------------------------- MODULE MCEngineConfig ---------------------------
(* EngineConfig over two bodies that pass validation and one that does not. *)
EXTENDS EngineConfig

MCTwoBodies ==
    {[role_id |-> "r1", secret_id |-> "s1", api_addr |-> x,
      expose_targets |-> FALSE, target_mount_allowlist |-> {}] : x \in {"", "a1", "a2"}}
=============================================================================
