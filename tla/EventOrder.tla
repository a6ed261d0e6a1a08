----------------------------- MODULE EventOrder -----------------------------
(***************************************************************************)
(* How packages/jobs/src/ordering.ts keeps two events of one ticket apart: *)
(* inside a worker process a serializer chains each event behind the last  *)
(* one that shares an ordering key, and across processes the event's       *)
(* transaction takes an advisory lock per key, in sorted order, before any *)
(* handler runs.                                                           *)
(*                                                                         *)
(* Delivery n is the n-th job BullMQ hands to any worker process.  A job   *)
(* that is retried or redelivered is a later delivery with the same keys.  *)
(***************************************************************************)
EXTENDS Naturals, FiniteSets

CONSTANTS
  N,              \* deliveries
  Keys,           \* ordering keys as numbers, in the order they sort
  KeysOf,         \* [1..N -> SUBSET Keys]: outboxOrderingKeys of the event
  Processes,      \* worker processes
  Concurrency,    \* OUTBOX_CONCURRENCY: jobs one process holds at a time
  MaxCrashes,     \* bound on process crashes
  None            \* no process, no delivery

Deliveries == 1..N

ASSUME OrderAssumption ==
  /\ N \in Nat /\ Keys \subseteq Nat /\ IsFiniteSet(Keys)
  /\ KeysOf \in [Deliveries -> SUBSET Keys]
  /\ Concurrency \in Nat \ {0} /\ MaxCrashes \in Nat
  /\ None \notin Processes /\ None \notin Nat

VARIABLES
  handed,   \* deliveries handed out so far
  pc,       \* where each delivery is in serializer.run and its transaction
  proc,     \* the process it was handed to
  before,   \* the promises it waits for: the tails it registered behind
  tails,    \* per process, the serializer's map from key to last delivery
  held,     \* per delivery, the advisory locks its transaction holds
  crashes

vars == <<handed, pc, proc, before, tails, held, crashes>>

Init ==
  /\ handed = 0
  /\ pc = [d \in Deliveries |-> "waiting"]
  /\ proc = [d \in Deliveries |-> None]
  /\ before = [d \in Deliveries |-> {}]
  /\ tails = [p \in Processes |-> [k \in Keys |-> None]]
  /\ held = [d \in Deliveries |-> {}]
  /\ crashes = 0

(* A promise of serializer.run that has not settled.                       *)
Pending(d) == pc[d] \in {"chained", "locking", "running", "ended"}

Slots(p) == {d \in Deliveries : proc[d] = p /\ Pending(d)}

(* The processor is called: `run` reads the tails of the keys and puts the *)
(* new promise in their place, all before it yields.                       *)
Register(p) ==
  LET d == handed + 1 IN
  /\ handed < N
  /\ Cardinality(Slots(p)) < Concurrency
  /\ handed' = d
  /\ pc' = [pc EXCEPT ![d] = "chained"]
  /\ proc' = [proc EXCEPT ![d] = p]
  /\ before' = [before EXCEPT ![d] = {tails[p][k] : k \in KeysOf[d]} \ {None}]
  /\ tails' = [tails EXCEPT
                 ![p] = [k \in Keys |-> IF k \in KeysOf[d] THEN d ELSE @[k]]]
  /\ UNCHANGED <<held, crashes>>

(* Mutant: Promise.race in the place of Promise.allSettled.                *)
BeginAfterAny(d) ==
  /\ pc[d] = "chained"
  /\ before[d] = {} \/ \E b \in before[d] : ~Pending(b)
  /\ pc' = [pc EXCEPT ![d] = "locking"]
  /\ UNCHANGED <<handed, proc, before, tails, held, crashes>>

(* Promise.allSettled(before) resolves, whether or not those jobs failed,  *)
(* and the task opens its transaction.                                     *)
Begin(d) ==
  /\ pc[d] = "chained"
  /\ \A b \in before[d] : ~Pending(b)
  /\ pc' = [pc EXCEPT ![d] = "locking"]
  /\ UNCHANGED <<handed, proc, before, tails, held, crashes>>

(* Mutant: the keys are locked in the order the payload names them.         *)
IsAnyLock(d, k) == k \in KeysOf[d] \ held[d]

(* The first key, in sorted order, whose lock the transaction still lacks. *)
IsNextLock(d, k) ==
  /\ k \in KeysOf[d] \ held[d]
  /\ \A l \in KeysOf[d] \ held[d] : k <= l

LockFree(d, k) == \A o \in Deliveries \ {d} : k \notin held[o]

TakeLock(d, k) ==
  /\ pc[d] = "locking"
  /\ IsNextLock(d, k)
  /\ LockFree(d, k)
  /\ held' = [held EXCEPT ![d] = @ \union {k}]
  /\ UNCHANGED <<handed, pc, proc, before, tails, crashes>>

(* Mutant: the handlers run after the first lock.                           *)
DispatchAfterFirst(d) ==
  /\ pc[d] = "locking"
  /\ held[d] # {}
  /\ pc' = [pc EXCEPT ![d] = "running"]
  /\ UNCHANGED <<handed, proc, before, tails, held, crashes>>

(* All locks taken: the dispatcher runs the event's subscribers.           *)
Dispatch(d) ==
  /\ pc[d] = "locking"
  /\ held[d] = KeysOf[d]
  /\ pc' = [pc EXCEPT ![d] = "running"]
  /\ UNCHANGED <<handed, proc, before, tails, held, crashes>>

(* Mutant: session locks, which outlive the transaction.                    *)
EndKeepingLocks(d) ==
  /\ pc[d] \in {"locking", "running"}
  /\ pc' = [pc EXCEPT ![d] = "ended"]
  /\ UNCHANGED <<handed, proc, before, tails, held, crashes>>

(* Commit, or rollback of an attempt that threw while locking or running:  *)
(* the locks go with the transaction.                                      *)
EndTransaction(d) ==
  /\ pc[d] \in {"locking", "running"}
  /\ pc' = [pc EXCEPT ![d] = "ended"]
  /\ held' = [held EXCEPT ![d] = {}]
  /\ UNCHANGED <<handed, proc, before, tails, crashes>>

(* Mutant: forgets the tails of its keys, whoever they are.                 *)
SettleAnyTail(d) ==
  /\ pc[d] = "ended"
  /\ pc' = [pc EXCEPT ![d] = "settled"]
  /\ tails' = [tails EXCEPT
                 ![proc[d]] = [k \in Keys |-> IF k \in KeysOf[d] THEN None ELSE @[k]]]
  /\ UNCHANGED <<handed, proc, before, held, crashes>>

(* Mutant: resolves the promise and leaves its tails in the map.            *)
SettleLeaking(d) ==
  /\ pc[d] = "ended"
  /\ pc' = [pc EXCEPT ![d] = "settled"]
  /\ UNCHANGED <<handed, proc, before, tails, held, crashes>>

(* `settle`: the promise resolves, and a tail that is still this           *)
(* delivery's own is forgotten.                                            *)
Settle(d) ==
  /\ pc[d] = "ended"
  /\ pc' = [pc EXCEPT ![d] = "settled"]
  /\ tails' = [tails EXCEPT
                 ![proc[d]] = [k \in Keys |-> IF @[k] = d THEN None ELSE @[k]]]
  /\ UNCHANGED <<handed, proc, before, held, crashes>>

(* A worker process dies with its serializer and its transactions.         *)
Crash(p) ==
  /\ crashes < MaxCrashes
  /\ Slots(p) # {}
  /\ pc' = [d \in Deliveries |-> IF d \in Slots(p) THEN "lost" ELSE pc[d]]
  /\ held' = [d \in Deliveries |-> IF d \in Slots(p) THEN {} ELSE held[d]]
  /\ tails' = [tails EXCEPT ![p] = [k \in Keys |-> None]]
  /\ crashes' = crashes + 1
  /\ UNCHANGED <<handed, proc, before>>

Advance(d) ==
  \/ Begin(d) \/ (\E k \in Keys : TakeLock(d, k)) \/ Dispatch(d) \/ Settle(d)

Next ==
  \/ \E p \in Processes : Register(p) \/ Crash(p)
  \/ \E d \in Deliveries : Advance(d) \/ EndTransaction(d)

Spec == Init /\ [][Next]_vars

(* A process runs its callbacks, Postgres grants a lock that stays free or *)
(* is freed again and again, and a handler returns or throws.              *)
Fairness ==
  \A d \in Deliveries :
    /\ WF_vars(Begin(d) \/ Settle(d))
    /\ SF_vars(\E k \in Keys : TakeLock(d, k))
    /\ WF_vars(Dispatch(d))
    /\ WF_vars(pc[d] = "running" /\ EndTransaction(d))

FairSpec == Spec /\ Fairness

-----------------------------------------------------------------------------
(* Properties.                                                             *)

TypeOK ==
  /\ handed \in 0..N
  /\ pc \in [Deliveries -> {"waiting", "chained", "locking", "running", "ended",
                            "settled", "lost"}]
  /\ proc \in [Deliveries -> Processes \union {None}]
  /\ before \in [Deliveries -> SUBSET Deliveries]
  /\ tails \in [Processes -> [Keys -> Deliveries \union {None}]]
  /\ held \in [Deliveries -> SUBSET Keys]
  /\ crashes \in 0..MaxCrashes

Share(c, d) == KeysOf[c] \intersect KeysOf[d] # {}

(* "Two worker processes never run events of one ticket at the same        *)
(* moment" (ordering.ts).                                                  *)
OneEventPerKey ==
  \A c, d \in Deliveries :
    c # d /\ pc[c] = "running" /\ pc[d] = "running" => ~Share(c, d)

(* "Call order is the execution order for each key": in one process an     *)
(* event opens its transaction only when every earlier event that shares a *)
(* key with it, through whatever chain of keys, is over.                   *)
ProcessOrder ==
  \A c, d \in Deliveries :
    /\ c < d /\ proc[c] = proc[d] /\ Share(c, d)
    /\ pc[d] \in {"locking", "running", "ended", "settled"}
    => ~Pending(c)

(* The serializer's map does not leak: a key's tail is a delivery of that  *)
(* key still pending in that process, so an idle process has an empty map. *)
TailsArePending ==
  \A p \in Processes, k \in Keys, d \in Deliveries :
    tails[p][k] = d => Pending(d) /\ proc[d] = p /\ k \in KeysOf[d]

(* "Two events that share several tickets cannot deadlock": whatever locks *)
(* and chains are held, some pending delivery has its next step free.      *)
Unblocked(d) ==
  \/ pc[d] = "chained" /\ \A b \in before[d] : ~Pending(b)
  \/ pc[d] = "locking" /\ \A k \in Keys : IsNextLock(d, k) => LockFree(d, k)
  \/ pc[d] \in {"running", "ended"}

NoDeadlock ==
  (\E d \in Deliveries : Pending(d)) => \E d \in Deliveries : Pending(d) /\ Unblocked(d)

(* A delivery that was handed over comes to an end: no event waits for     *)
(* ever on the events and locks of other tickets.                          *)
EveryDeliveryEnds == \A d \in Deliveries : Pending(d) ~> ~Pending(d)

(* What a subscriber sees of a delivery.                                   *)
Phase(d) ==
  CASE pc[d] = "waiting"               -> "waiting"
    [] pc[d] \in {"chained", "locking"} -> "queued"
    [] pc[d] = "running"               -> "running"
    [] OTHER                           -> "over"

(* Chains within a process and locks across processes implement a queue    *)
(* per ticket: an event's subscribers run, and its attempt ends, in its    *)
(* turn only, and never beside another event of one of its tickets.        *)
Queue == INSTANCE EventQueue
           WITH phase <- [d \in Deliveries |-> Phase(d)], worker <- proc

ImplementsEventQueue == Queue!Spec

-----------------------------------------------------------------------------
(* The inductive invariant behind the safety properties                    *)
(* (EventOrder_proofs).                                                    *)

(* Deliveries not handed out yet have no process and hold nothing.         *)
HandedInv ==
  \A d \in Deliveries :
    /\ pc[d] = "waiting" <=> handed < d
    /\ proc[d] = None <=> handed < d
    /\ \A b \in before[d] : b < d

(* A lock has one holder; a handler runs under all of its locks; locks are *)
(* taken from the smallest up and belong to an open transaction.           *)
LocksInv ==
  /\ \A c, d \in Deliveries : c # d => held[c] \intersect held[d] = {}
  /\ \A d \in Deliveries :
       /\ pc[d] = "running" => held[d] = KeysOf[d]
       /\ held[d] # {} => pc[d] \in {"locking", "running"}
       /\ \A k \in held[d], l \in KeysOf[d] \ held[d] : k < l

(* The tail of a key is the last pending delivery of it.                   *)
TailsAreLast ==
  \A d \in Deliveries : Pending(d) =>
    \A k \in KeysOf[d] : /\ tails[proc[d]][k] # None
                         /\ d <= tails[proc[d]][k]

(* A pending predecessor on a key is waited for, directly or through a     *)
(* later delivery of that key.                                             *)
ChainInv ==
  \A c, d \in Deliveries :
    c < d /\ Pending(c) /\ Pending(d) /\ proc[c] = proc[d] =>
      \A k \in KeysOf[c] \intersect KeysOf[d] :
        \E b \in before[d] : c <= b /\ proc[b] = proc[d] /\ k \in KeysOf[b]

(* ProcessOrder, and nothing earlier survives a process crash.             *)
OverInv ==
  \A c, d \in Deliveries :
    /\ c < d /\ proc[c] = proc[d] /\ proc[d] # None /\ Share(c, d)
    /\ pc[d] \notin {"waiting", "chained"}
    => ~Pending(c)

OrderInv ==
  /\ TypeOK /\ HandedInv /\ LocksInv /\ TailsArePending /\ TailsAreLast
  /\ ChainInv /\ OverInv
=============================================================================
