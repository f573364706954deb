---------------------------- MODULE MCDereference ----------------------------
(* Dereference over one configuration, a target with and one without a field *)
(* suffix, and symmetric tokens and readers.                                 *)
EXTENDS Dereference, TLC

Body(allowlist) ==
    [role_id |-> "r1", secret_id |-> "s1", api_addr |-> "a1",
     expose_targets |-> FALSE, target_mount_allowlist |-> allowlist]

MCOpenBody == {Body({})}
MCNarrowBody == {Body({"kv"})}

MCOneTarget == {[mount |-> "kv", field |-> "user"]}
MCTwoMounts == {[mount |-> "kv", field |-> ""], [mount |-> "db", field |-> ""]}

MCSymmetry == Permutations(Tokens) \cup Permutations(Readers)
=============================================================================
