------------------------------ MODULE MCOutbox ------------------------------
(* Small instances of Outbox for TLC. *)
EXTENDS Outbox, TLC

CONSTANTS b1, b2, r1, r2, c1, c2

OneBrand == [e \in Entries |-> b1]
LastInOtherBrand ==
  [e \in Entries |-> IF \A d \in Entries : d <= e THEN b2 ELSE b1]
OwnKey == [b \in Brands |-> b]

Replicas == Permutations(Relays) \union Permutations(Consumers)
=============================================================================
