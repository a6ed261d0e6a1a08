------------------------------ MODULE MCPresence ------------------------------
(* Small instances of Presence.                                            *)
EXTENDS Presence

CONSTANTS b1, u1, s1, s2, r1

OneUser == [s \in Sockets |-> u1]
OneHome == [s \in Sockets |-> r1]
=============================================================================
