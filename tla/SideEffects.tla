---------------------------- MODULE SideEffects ----------------------------
(***************************************************************************)
(* What the outbox promises the rest of Helpdock (DOMAIN-RULES 6,          *)
(* packages/jobs/README.md "What it guarantees"), with no relay, no Redis  *)
(* and no receipts in it: a side effect asked for by a transaction that    *)
(* commits is applied at most once, one asked for by a transaction that    *)
(* rolls back is never applied.                                            *)
(***************************************************************************)
EXTENDS Naturals

CONSTANT Entries            \* the side effects domain code may ask for

VARIABLES fate,             \* what became of the transaction that asked
          effects           \* how many times the effect was applied

vars == <<fate, effects>>

Fates == {"open", "committed", "rolledback"}

Init ==
  /\ fate = [e \in Entries |-> "open"]
  /\ effects = [e \in Entries |-> 0]

Commit(e) ==
  /\ fate[e] = "open"
  /\ fate' = [fate EXCEPT ![e] = "committed"]
  /\ UNCHANGED effects

Rollback(e) ==
  /\ fate[e] = "open"
  /\ fate' = [fate EXCEPT ![e] = "rolledback"]
  /\ UNCHANGED effects

Apply(e) ==
  /\ fate[e] = "committed"
  /\ effects[e] = 0
  /\ effects' = [effects EXCEPT ![e] = 1]
  /\ UNCHANGED fate

Next == \E e \in Entries : Commit(e) \/ Rollback(e) \/ Apply(e)

Spec == Init /\ [][Next]_vars
=============================================================================
