----------------------------- MODULE EventQueue -----------------------------
(***************************************************************************)
(* What ordering.ts promises the subscribers of events, with no chains, no *)
(* map of tails and no locks in it: each event waits for its turn among    *)
(* those of its tickets that its process was handed before it, and events  *)
(* of one ticket never run at the same moment, in one process or in two.   *)
(***************************************************************************)
EXTENDS Naturals

CONSTANTS
  N,          \* deliveries, numbered in the order they are handed out
  KeysOf,     \* the ordering keys of each
  Processes,  \* worker processes
  None        \* no process

VARIABLES
  phase,      \* what became of each delivery
  worker      \* the process it was handed to

vars == <<phase, worker>>

Deliveries == 1..N

Share(c, d) == KeysOf[c] \intersect KeysOf[d] # {}

Init ==
  /\ phase = [d \in Deliveries |-> "waiting"]
  /\ worker = [d \in Deliveries |-> None]

Hand(d, p) ==
  /\ phase[d] = "waiting"
  /\ \A c \in Deliveries : c < d => phase[c] # "waiting"
  /\ phase' = [phase EXCEPT ![d] = "queued"]
  /\ worker' = [worker EXCEPT ![d] = p]

(* All that share a ticket with it and came before it to its process are   *)
(* over.                                                                   *)
HasTurn(d) ==
  /\ phase[d] = "queued"
  /\ \A c \in Deliveries :
       c < d /\ worker[c] = worker[d] /\ Share(c, d) => phase[c] = "over"

Start(d) ==
  /\ HasTurn(d)
  /\ \A c \in Deliveries : c # d /\ Share(c, d) => phase[c] # "running"
  /\ phase' = [phase EXCEPT ![d] = "running"]
  /\ UNCHANGED worker

(* An attempt may fail before any subscriber runs.                         *)
GiveUp(d) ==
  /\ HasTurn(d)
  /\ phase' = [phase EXCEPT ![d] = "over"]
  /\ UNCHANGED worker

End(d) ==
  /\ phase[d] = "running"
  /\ phase' = [phase EXCEPT ![d] = "over"]
  /\ UNCHANGED worker

(* What a process was doing goes with it.                                  *)
Crash(p) ==
  /\ phase' = [d \in Deliveries |-> IF worker[d] = p THEN "over" ELSE phase[d]]
  /\ UNCHANGED worker

Next ==
  \/ \E d \in Deliveries :
       (\E p \in Processes : Hand(d, p)) \/ Start(d) \/ GiveUp(d) \/ End(d)
  \/ \E p \in Processes : Crash(p)

Spec == Init /\ [][Next]_vars
=============================================================================
