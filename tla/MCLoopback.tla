----------------------------- MODULE MCLoopback -----------------------------
(* Loopback over one or two valid bodies that differ in the address, one     *)
(* body without an address, and symmetric tokens and readers.                *)
EXTENDS Loopback, TLC

Body(addr) ==
    [role_id |-> "r1", secret_id |-> "s1", api_addr |-> addr,
     expose_targets |-> FALSE, target_mount_allowlist |-> {}]

MCOneBody == {Body("a1"), Body("")}
MCTwoBodies == {Body("a1"), Body("a2")}

MCSymmetry == Permutations(Tokens) \cup Permutations(Readers)
=============================================================================
