---------------------------- MODULE MCRelayLoop -----------------------------
(* Small instances of RelayLoop for TLC. *)
EXTENDS RelayLoop, TLC

CONSTANTS r1, r2, r3, e1, e2, e3

Alike == Permutations(Relays) \union Permutations(Rows)
=============================================================================
