---------------------------- MODULE MCSlaTimers -----------------------------
(* Small instances of SlaTimers.                                           *)
EXTENDS SlaTimers

CONSTANTS w1, w2

OneWorker == {w1}
TwoWorkers == {w1, w2}

OnlyBreach == {100}

OneTarget == {2}
ShortTargets == {1, 2}
=============================================================================
