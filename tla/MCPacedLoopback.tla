--------------------------- MODULE MCPacedLoopback ---------------------------
(* PacedLoopback over one valid body, with symmetric tokens.                 *)
EXTENDS PacedLoopback, TLC

MCOneBody ==
    {[role_id |-> "r1", secret_id |-> "s1", api_addr |-> "a1",
      expose_targets |-> FALSE, target_mount_allowlist |-> {}]}

MCSymmetry == Permutations(Tokens)

ASSUME DelaysGrow /\ MarginCoversTick

\* loopbackBackoffDelay against its comment: 1s * 2^(n-1), capped.
ASSUME \A n \in 1..MaxFailures :
    LET d == BaseDelay * 2^(n - 1) IN Delay(n) = IF d > MaxDelay THEN MaxDelay ELSE d
=============================================================================
