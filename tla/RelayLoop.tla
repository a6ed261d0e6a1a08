----------------------------- MODULE RelayLoop ------------------------------
(***************************************************************************)
(* How the outbox relays sleep and wake (packages/jobs/src/relay.ts,       *)
(* startOutboxRelay, and waiter.ts).  Each replica runs one loop: a cycle, *)
(* then a wait that ends on `NOTIFY outbox`, on a timer or on stop.  One   *)
(* brand is modelled; module Outbox has the rows of several in order.      *)
(*                                                                         *)
(* A step is what happens between two awaits: a notification, a timer and  *)
(* a stop come in between.                                                 *)
(***************************************************************************)
EXTENDS Naturals, FiniteSets

CONSTANTS
  Relays,      \* one loop per replica
  Rows,        \* outbox rows of the brand
  BatchSize,   \* rows of one publishing transaction
  MaxFailures, \* bound on cycles that fail
  None         \* no relay

ASSUME RelayLoopAssumption ==
  /\ Relays # {} /\ None \notin Relays
  /\ BatchSize \in Nat \ {0} /\ MaxFailures \in Nat

VARIABLES
  committed,   \* rows committed
  published,   \* rows with published_at set
  holder,      \* who holds the brand's advisory lock
  pc,          \* where each relay's loop is
  batch,       \* the rows its transaction read
  more,        \* hasMore of its cycle
  pending,     \* waiter.ts: a notification no wait has redeemed
  stopped,     \* stop() was called
  listening,   \* LISTEN outbox succeeded
  told,        \* history: the rows it need not be told of any more
  failed,      \* history: its last cycle failed, or a brand of it
  failures

relayVars == <<pc, batch, more>>
waiter == <<pending, stopped, listening, told>>
vars == <<committed, published, holder, relayVars, waiter, failed, failures>>

Steps == {"subscribe", "loop", "discover", "lock", "read", "publish", "end",
          "wait", "asleep", "done"}

Init ==
  /\ committed = {}
  /\ published = {}
  /\ holder = None
  /\ pc = [r \in Relays |-> "subscribe"]
  /\ batch = [r \in Relays |-> {}]
  /\ more = [r \in Relays |-> FALSE]
  /\ pending = [r \in Relays |-> FALSE]
  /\ stopped = [r \in Relays |-> FALSE]
  /\ listening = [r \in Relays |-> FALSE]
  /\ told = [r \in Relays |-> {}]
  /\ failed = [r \in Relays |-> FALSE]
  /\ failures = 0

Unpublished == committed \ published

Goes(r, step) == pc' = [pc EXCEPT ![r] = step]

-----------------------------------------------------------------------------
(* The waiter.                                                             *)

(* Mutant: a notification ends the wait in progress, and is forgotten when *)
(* there is none.                                                          *)
NotifyOnlyWakes(r) ==
  /\ pc' = IF pc[r] = "asleep" THEN [pc EXCEPT ![r] = "loop"] ELSE pc
  /\ UNCHANGED pending

(* notify: `end` ends the wait in progress and clears what `pending` says; *)
(* with no wait to end, the next one will not begin.                       *)
Notify(r) ==
  /\ pc' = IF pc[r] = "asleep" THEN [pc EXCEPT ![r] = "loop"] ELSE pc
  /\ pending' = [pending EXCEPT ![r] = pc[r] # "asleep"]

(* wait: a notification that came before is redeemed at once, ...          *)
Redeem(r) ==
  /\ pc[r] = "wait" /\ pending[r]
  /\ pending' = [pending EXCEPT ![r] = FALSE]
  /\ Goes(r, "loop")
  /\ UNCHANGED <<committed, published, holder, batch, more, stopped, listening,
                 told, failed, failures>>

(* ... and otherwise the relay sleeps, ...                                 *)
FallAsleep(r) ==
  /\ pc[r] = "wait" /\ ~pending[r]
  /\ Goes(r, "asleep")
  /\ UNCHANGED <<committed, published, holder, batch, more, waiter, failed, failures>>

(* ... until pollIntervalMs is over.                                       *)
TimerFires(r) ==
  /\ pc[r] = "asleep"
  /\ Goes(r, "loop")
  /\ UNCHANGED <<committed, published, holder, batch, more, waiter, failed, failures>>

-----------------------------------------------------------------------------
(* What happens to a relay from outside.                                   *)

(* enqueueOutbox committed a row.                                          *)
CommitRow(e) ==
  /\ e \in Rows \ committed
  /\ committed' = committed \union {e}
  /\ UNCHANGED <<published, holder, relayVars, waiter, failed, failures>>

(* Postgres tells a listener of rows committed since, one notification for *)
(* all that one transaction wrote.                                         *)
Hear(r, S) ==
  /\ listening[r] /\ pc[r] # "done"
  /\ S # {} /\ S \subseteq committed \ told[r]
  /\ told' = [told EXCEPT ![r] = @ \union S]
  /\ Notify(r)
  /\ UNCHANGED <<committed, published, holder, batch, more, stopped, listening,
                 failed, failures>>

(* Mutant: the wait is left to its timer.                                  *)
StopQuietly(r) ==
  /\ ~stopped[r]
  /\ stopped' = [stopped EXCEPT ![r] = TRUE]
  /\ UNCHANGED <<committed, published, holder, pc, batch, more, pending,
                 listening, told, failed, failures>>

(* stop: once, however often it is called.                                 *)
Stop(r) ==
  /\ ~stopped[r]
  /\ stopped' = [stopped EXCEPT ![r] = TRUE]
  /\ Notify(r)
  /\ UNCHANGED <<committed, published, holder, batch, more, listening, told,
                 failed, failures>>

-----------------------------------------------------------------------------
(* The loop.                                                               *)

(* subscribe: a relay that cannot listen goes on without; one that listens *)
(* hears of every row that is committed from now on.                       *)
Subscribe(r) ==
  /\ pc[r] = "subscribe"
  /\ listening' = [listening EXCEPT ![r] = TRUE]
  /\ told' = [told EXCEPT ![r] = committed]
  /\ Goes(r, "loop")
  /\ UNCHANGED <<committed, published, holder, batch, more, pending, stopped,
                 failed, failures>>

FailToSubscribe(r) ==
  /\ pc[r] = "subscribe"
  /\ Goes(r, "loop")
  /\ UNCHANGED <<committed, published, holder, batch, more, waiter, failed, failures>>

Exit(r) ==
  /\ pc[r] = "loop" /\ stopped[r]
  /\ Goes(r, "done")
  /\ UNCHANGED <<committed, published, holder, batch, more, waiter, failed, failures>>

(* Mutant: the loop does not look whether it was stopped.                  *)
StartCycleAnyway(r) ==
  /\ pc[r] = "loop"
  /\ more' = [more EXCEPT ![r] = FALSE]
  /\ failed' = [failed EXCEPT ![r] = FALSE]
  /\ Goes(r, "discover")
  /\ UNCHANGED <<committed, published, holder, batch, waiter, failures>>

StartCycle(r) ==
  /\ pc[r] = "loop" /\ ~stopped[r]
  /\ more' = [more EXCEPT ![r] = FALSE]
  /\ failed' = [failed EXCEPT ![r] = FALSE]
  /\ Goes(r, "discover")
  /\ UNCHANGED <<committed, published, holder, batch, waiter, failures>>

(* findUnpublishedRowCounts: a brand with nothing to publish is passed by. *)
Discover(r) ==
  /\ pc[r] = "discover"
  /\ Goes(r, IF Unpublished = {} THEN "end" ELSE "lock")
  /\ UNCHANGED <<committed, published, holder, batch, more, waiter, failed, failures>>

(* publishBrand: one transaction, under the brand's lock if it is free, ...*)
TakeLock(r) ==
  /\ pc[r] = "lock" /\ holder = None
  /\ holder' = r
  /\ Goes(r, "read")
  /\ UNCHANGED <<committed, published, batch, more, waiter, failed, failures>>

(* ... and not at all if another replica has it.                           *)
SkipBrand(r) ==
  /\ pc[r] = "lock" /\ holder # None
  /\ Goes(r, "end")
  /\ UNCHANGED <<committed, published, holder, batch, more, waiter, failed, failures>>

(* The rows are read in the order of their ids, which need not be the one  *)
(* they were committed in: any rows, as many as there are or as fit.       *)
ReadBatch(r, S) ==
  /\ pc[r] = "read"
  /\ S \subseteq Unpublished
  /\ Cardinality(S) <= BatchSize
  /\ S = Unpublished \/ Cardinality(S) = BatchSize
  /\ batch' = [batch EXCEPT ![r] = S]
  /\ Goes(r, "publish")
  /\ UNCHANGED <<committed, published, holder, more, waiter, failed, failures>>

Publish(r) ==
  /\ pc[r] = "publish"
  /\ published' = published \union batch[r]
  /\ more' = [more EXCEPT ![r] = Cardinality(batch[r]) = BatchSize]
  /\ batch' = [batch EXCEPT ![r] = {}]
  /\ holder' = None
  /\ Goes(r, "end")
  /\ UNCHANGED <<committed, waiter, failed, failures>>

(* Mutant: a lock of the session outlives the transaction that failed.     *)
FailHoldingLock(r) ==
  /\ pc[r] \in {"read", "publish"} /\ failures < MaxFailures
  /\ failures' = failures + 1
  /\ failed' = [failed EXCEPT ![r] = TRUE]
  /\ batch' = [batch EXCEPT ![r] = {}]
  /\ Goes(r, "end")
  /\ UNCHANGED <<committed, published, holder, more, waiter>>

(* A brand that fails is rolled back and counted, and the cycle goes on.   *)
FailBrand(r) ==
  /\ pc[r] \in {"read", "publish"} /\ failures < MaxFailures
  /\ failures' = failures + 1
  /\ failed' = [failed EXCEPT ![r] = TRUE]
  /\ batch' = [batch EXCEPT ![r] = {}]
  /\ holder' = None
  /\ Goes(r, "end")
  /\ UNCHANGED <<committed, published, more, waiter>>

(* A cycle that fails as a whole is logged, and the relay waits.           *)
FailCycle(r) ==
  /\ pc[r] = "discover" /\ failures < MaxFailures
  /\ failures' = failures + 1
  /\ failed' = [failed EXCEPT ![r] = TRUE]
  /\ Goes(r, "wait")
  /\ UNCHANGED <<committed, published, holder, batch, more, waiter>>

(* A full batch is followed by the next cycle without a wait.              *)
EndCycle(r) ==
  /\ pc[r] = "end"
  /\ Goes(r, IF more[r] THEN "loop" ELSE "wait")
  /\ UNCHANGED <<committed, published, holder, batch, more, waiter, failed, failures>>

-----------------------------------------------------------------------------
LoopStep(r) ==
  \/ Subscribe(r) \/ FailToSubscribe(r) \/ Exit(r) \/ StartCycle(r) \/ Discover(r)
  \/ TakeLock(r) \/ SkipBrand(r) \/ Publish(r) \/ FailBrand(r) \/ FailCycle(r)
  \/ (\E S \in SUBSET Rows : ReadBatch(r, S))
  \/ EndCycle(r) \/ Redeem(r) \/ FallAsleep(r)

Next ==
  \/ \E e \in Rows : CommitRow(e)
  \/ \E r \in Relays :
       LoopStep(r) \/ TimerFires(r) \/ Stop(r) \/ \E S \in SUBSET Rows : Hear(r, S)

Spec == Init /\ [][Next]_vars

(* The event loop runs what is ready, and its timers fire.  Nothing says   *)
(* that a notification ever comes.                                         *)
Fairness == \A r \in Relays : WF_vars(LoopStep(r)) /\ WF_vars(TimerFires(r))

FairSpec == Spec /\ Fairness

-----------------------------------------------------------------------------
(* The parts of the inductive invariant.                                   *)

(* The lock is held by whoever is in the brand's transaction.              *)
HolderInv == \A r \in Relays : pc[r] \in {"read", "publish"} <=> holder = r

(* A stop is pending, or the loop is about to see it, or has.              *)
StopInv == \A r \in Relays : stopped[r] => pending[r] \/ pc[r] \in {"loop", "done"}

(* A wait in progress has nothing pending.                                 *)
AsleepInv == \A r \in Relays : pc[r] = "asleep" => ~pending[r]

(* A batch that is not full leaves nothing its relay was told of before.   *)
BatchInv ==
  \A r \in Relays : pc[r] = "publish" =>
    \/ told[r] \subseteq published \union batch[r]
    \/ Cardinality(batch[r]) = BatchSize
    \/ pending[r]

(* A relay that will read again what it was told of, or need not.          *)
Minds(r) ==
  \/ pc[r] \in {"subscribe", "loop", "discover", "lock", "read", "publish"}
  \/ pc[r] = "end" /\ more[r]
  \/ pending[r]
  \/ told[r] \subseteq published

MindedInv ==
  (\A r \in Relays : listening[r] /\ ~stopped[r] /\ ~failed[r]) =>
    \E r \in Relays : Minds(r)

-----------------------------------------------------------------------------
(* Properties.                                                             *)

TypeOK ==
  /\ committed \subseteq Rows /\ published \subseteq committed
  /\ holder \in Relays \union {None}
  /\ pc \in [Relays -> Steps]
  /\ batch \in [Relays -> SUBSET committed]
  /\ more \in [Relays -> BOOLEAN]
  /\ pending \in [Relays -> BOOLEAN]
  /\ stopped \in [Relays -> BOOLEAN]
  /\ listening \in [Relays -> BOOLEAN]
  /\ told \in [Relays -> SUBSET committed]
  /\ failed \in [Relays -> BOOLEAN]
  /\ failures \in 0..MaxFailures

Untroubled == \A r \in Relays : listening[r] /\ ~stopped[r] /\ ~failed[r]

AllAsleep == \A r \in Relays : pc[r] = "asleep"

(* No notification is lost: when every relay sleeps, there is no row that  *)
(* each of them was told of and nobody published.  A relay may skip the    *)
(* brand because another holds its lock, and that other may have read too  *)
(* early; then it is told itself, and cycles again.                        *)
NobodySleepsOnARow ==
  Untroubled /\ AllAsleep =>
    \A e \in Unpublished : \E r \in Relays : e \notin told[r]

(* stop() waits for no timer: a relay that was told to stop is not asleep. *)
StopIsPrompt == \A r \in Relays : stopped[r] => pc[r] # "asleep"

(* The poll is the guarantee: with no notification at all, and after       *)
(* failures, every committed row is published, unless all relays stop.     *)
EveryRowIsPublished ==
  \A e \in Rows : e \in committed ~> e \in published \/ \A r \in Relays : stopped[r]

(* A relay that is told to stop ends its loop.                             *)
StopEnds == \A r \in Relays : stopped[r] ~> pc[r] = "done"
=============================================================================
