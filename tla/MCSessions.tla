----------------------------- MODULE MCSessions -----------------------------
(* Small instances of Sessions for TLC. *)
EXTENDS Sessions, TLC

CONSTANTS f1, f2, s1, s2, r1, r2, r3

Alike == Permutations(Families) \union Permutations(Sids) \union Permutations(Requests)
=============================================================================
