---------------------------- MODULE MCAuthStaking ----------------------------
(* Two executors, two owner addresses, amounts 1 and 2 with a registration *)
(* minimum of 2 (so a stake of 1 fails for a new key and passes for a      *)
(* registered one), the allowlist on, and sequences 0..2 per key.         *)
EXTENDS AuthStaking

MCKeys == {"k1", "k2"}
MCOneKey == {"k1"}
MCAddrs == {"a1", "a2"}
MCAmounts == {1, 2}
=============================================================================
