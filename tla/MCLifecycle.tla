---------------------------- MODULE MCLifecycle -----------------------------
(* Small instances of Lifecycle. *)
EXTENDS Lifecycle

CONSTANTS c1, c2, w1, w2

OneUnit == {1}
TwoDelays == {1, 2}
=============================================================================
