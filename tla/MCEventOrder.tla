---------------------------- MODULE MCEventOrder ----------------------------
(* Small instances of EventOrder for TLC. *)
EXTENDS EventOrder, TLC

CONSTANTS p1, p2

(* Merges that name two tickets or three, and an event of one ticket:     *)
(* chains that share one key or several, in both sort directions.         *)
Merges == <<{1, 2}, {2, 3}, {1, 2, 3}, {2}>>

Processes2 == Permutations(Processes)
=============================================================================
